---- MODULE Spec2Model ----
(***************************************************************************)
(* Model of the streaming translation pipeline of ProjectYLT:              *)
(*   AudioCapture  -> STTProcessor -> LLMProcessor -> display callbacks,   *)
(* wired by TranslationPipeline (src/modules/pipeline.py).                 *)
(*                                                                         *)
(* Every thread of the program is a process of the model: the capture      *)
(* thread, the STT worker, the LLM worker and the three forwarder loops.   *)
(* One step of a process is one access to shared state (a queue operation, *)
(* a write of a running flag); the local computation between two accesses  *)
(* belongs to the step that precedes it, and so does the test of the       *)
(* running flag that begins an iteration of a loop: between two iterations *)
(* a thread is inside its blocking call (queue.get(timeout), stream.read). *)
(* The caller of TranslationPipeline.start()/stop() is the process "ctl".  *)
(***************************************************************************)
EXTENDS Integers, Sequences, FiniteSets, TLC

(***************************************************************************)
(* Bounds of the model.                                                    *)
(***************************************************************************)
\* start() calls that pass the "already running" guard (thread generations)
MaxStarts == 2
\* frames the capture device delivers in one behaviour
MaxFrames == 2
\* frames the device delivers in the behaviours of SpecLife
LifeFrames == 1
\* Thread.start() calls that raise in one behaviour
MaxFaults == 1
\* The queue capacities are scaled down to the capacity-1 channels of the
\* end-to-end scenario, so that overflow is reached within MaxFrames
\* frames.  The source builds the queues with
\*   AudioCapture.audio_queue   maxsize=10  (audio_capture.py:37)
\*   STTProcessor.audio_queue   maxsize=5   (stt_module.py:242)
\*   STTProcessor.result_queue  maxsize=10  (stt_module.py:243)
\*   LLMProcessor.text_queue    maxsize=5   (llm_module.py:261)
\*   LLMProcessor.result_queue  maxsize=10  (llm_module.py:262)
\* and no operation on them depends on the value of maxsize other than
\* through the comparison qsize >= maxsize.
CapAudioMax == 1
SttAudioMax == 1
SttResultMax == 1
LlmTextMax == 1
LlmResultMax == 1

(***************************************************************************)
(* Program constants.                                                      *)
(***************************************************************************)
WindowSize == 5
UpdateInterval == 3
MaxContextLength == 200
NumRecent == 2
\* SimpleContextManager._update_summary: entries and characters of each
\* entry that go into the summary
SimpleRecent == 3
SimplePrefix == 30

\* chunk_size (int(sample_rate * chunk_duration), audio_capture.py:29) and
\* the number of samples of one processed frame, scaled down: every frame
\* completes one chunk
ChunkSize == 1
FrameLen == 1
\* chunk_duration is a float number of seconds; the model counts it in
\* units of 1/DurationUnit second, which floats represent exactly
DurationUnit == 2
\* sample rates, chunk durations (in units) and frame lengths of the
\* configurations of SpecChunk
MaxSampleRate == 3
MaxDuration == 3
MaxFrameLen == 2
\* frames the device delivers in the behaviours of SpecChunk
ChunkFrames == 4
\* window sizes and update intervals of the managers of SpecContext, and
\* the sentences a manager accepts between two clear() calls
MaxWindow == 3
MaxInterval == 2
MaxAdds == 4
\* iterations of the capture loop that raise in one behaviour of SpecRead
MaxReadFaults == 2
\* largest max_context_length of the managers whose summaries are measured
MaxSummaryLen == 2
\* set_callbacks calls of the caller
MaxCallbackSets == 1

VARIABLES
  \* ---- TranslationPipeline
  pipe_running,     \* TranslationPipeline.is_running
  \* ---- AudioCapture
  cap_running,      \* AudioCapture.is_running
  stream_open,      \* AudioCapture.stream is not None (and active)
  sample_rate,      \* AudioCapture.sample_rate
  chunk_duration,   \* AudioCapture.chunk_duration, in 1/DurationUnit s
  chunk_size,       \* AudioCapture.chunk_size
  frame_len,        \* samples of one processed frame of the bound device
                    \* (of the longest one where the frames differ)
  buffer,           \* AudioCapture.buffer, a sequence of sample numbers
  \* ---- STTProcessor / LLMProcessor
  stt_running,      \* STTProcessor.is_running
  llm_running,      \* LLMProcessor.is_running
  \* ---- the five queue.Queue objects, by name (see QNames)
  queue,
  \* ---- ContextManager
  window_size,      \* ContextManager.window_size
  update_interval,  \* ContextManager.update_interval
  max_context_length, \* ContextManager.max_context_length
  history,          \* ContextManager.history (deque, maxlen = window_size)
  context_summary,  \* ContextManager.context_summary
  sentence_count,   \* ContextManager.sentence_count
  ctx_llm,          \* ContextManager.llm is not None
  ctx_simple,       \* the manager is a SimpleContextManager
  \* ---- threads
  pc,               \* position of every thread <<kind, generation>>
  item,             \* the item a thread holds in a local variable
  snap,             \* history variable of a producer: the queue as it was
                    \* when its put_nowait raised Full, while no other thread
                    \* has touched the queue since
  last_op,          \* history variable: the last operation that changed a
                    \* queue or raised queue.Full / queue.Empty in a sender
  \* ---- the caller of start()/stop()
  ctl_pc,           \* position inside start()/stop(), "idle" between calls
  ctl_call,         \* the public method being executed, "none" between calls
  ctl_ret,          \* value returned by the last completed call
  gen,              \* number of start() calls that passed the guard
  spawned,          \* forwarder threads spawned by the current/last start()
  frames_read,      \* frames delivered by the device so far
  faults,           \* Thread.start() calls that raised so far
  env,              \* the configuration and the environment of a behaviour:
                    \* the maxsize of each queue, how many start() calls
                    \* pass the guard, how many frames the device delivers
                    \* in all and how many before the last of these starts,
                    \* how many frames the caller lets pass before stop(),
                    \* the components (by the kind of their thread) whose
                    \* thread ends within the timeout of the join of
                    \* their stop(), the kinds of thread that have ended
                    \* whenever start() is called,
                    \* whether the processed frames differ in length,
                    \* how many Thread.start() calls raise, whether opening
                    \* the device can fail, whether the caller calls
                    \* start() on a running and stop() on an idle pipeline,
                    \* whether last_op is recorded, what the recognizer and
                    \* the translation model can return, the chunks (by
                    \* number) whose samples are all zero, whether the
                    \* on_partial_text and on_translation callbacks are
                    \* set and whether a callback can raise, how many
                    \* iterations of the capture loop raise, how many
                    \* set_callbacks calls the caller still makes
  hist,             \* history variable: the chunks the capture loop has
                    \* emitted, the chunks that have reached the recognizer,
                    \* the transcripts the recognizer has produced, the texts
                    \* the LLM worker has dequeued and the originals passed
                    \* to on_translation, each as the sequence of the
                    \* numbers of the chunks they come from; the
                    \* arguments of every on_translation call; the
                    \* results (by chunk number) a display forwarder has
                    \* dequeued while on_translation was set and
                    \* set_callbacks could still be called; for every
                    \* transcript the forwarder has passed to
                    \* on_partial_text, its word list and the words the
                    \* callback was called with; the entries
                    \* add_sentence has accepted and the number of summary
                    \* generations run since the manager was built or
                    \* cleared, and how the generation went in the last
                    \* add_sentence ("none" when none was run); whether
                    \* clear() has been called; for every iteration of
                    \* the capture loop that raised, the number of
                    \* frames read before it
  phase             \* history variable: lifecycle state of the orchestrator;
                    \* "Starting" from the guard of start() until is_running
                    \* is set, "Running" while is_running is True, "Stopping"
                    \* inside stop(), "Idle" otherwise

vars == <<pipe_running, cap_running, stream_open, sample_rate,
          chunk_duration, chunk_size, frame_len, buffer,
          stt_running, llm_running, queue, window_size, update_interval,
          max_context_length, history, context_summary, sentence_count,
          ctx_llm, ctx_simple,
          pc, item, snap, last_op, ctl_pc, ctl_call, ctl_ret, gen,
          spawned, frames_read, faults, env, hist, phase>>

flagVars == <<pipe_running, cap_running, stt_running, llm_running>>
ctxVars == <<window_size, update_interval, max_context_length, history,
             context_summary, sentence_count, ctx_llm, ctx_simple>>
capVars == <<stream_open, sample_rate, chunk_duration, chunk_size, frame_len,
             buffer, frames_read>>
ctlVars == <<ctl_pc, ctl_call, ctl_ret, gen, spawned, faults, env, phase>>
threadVars == <<pc, item, snap, last_op>>

(***************************************************************************)
(* Threads.                                                                *)
(***************************************************************************)
Kinds == {"cap", "stt", "llm", "a2s", "s2l", "l2d"}
Gens == 1..MaxStarts
Threads == Kinds \X Gens
Forwarders == {"a2s", "s2l", "l2d"}
Producers == {"cap", "stt", "llm"}

NoItem == [tag |-> "none"]
NoSnap == <<NoItem>>
NoOp == [by |-> <<"none", 0>>, op |-> "none"]
\* last_op after thread t has done op (not recorded where env.trace is off)
Op(t, op) == IF env.trace THEN [by |-> t, op |-> op] ELSE NoOp

Min(a, b) == IF a < b THEN a ELSE b

\* threading.Thread.is_alive(): the thread has been started and has not
\* ended; "unstarted" is a Thread object whose start() raised
Alive(t) == pc[t] \notin {"none", "unstarted", "done"}
AliveOf(k) == {g \in Gens : Alive(<<k, g>>)}

(***************************************************************************)
(* The queues.  queue.Queue is internally synchronised: every put_nowait,  *)
(* get_nowait and get(timeout) is one atomic step.                         *)
(***************************************************************************)
QNames == {"cap_audio", "stt_audio", "stt_result", "llm_text", "llm_result"}

\* maxsize of each queue.Queue, as scaled for the model
Maxsizes ==
  [q \in QNames |->
     CASE q = "cap_audio" -> CapAudioMax
       [] q = "stt_audio" -> SttAudioMax
       [] q = "stt_result" -> SttResultMax
       [] q = "llm_text" -> LlmTextMax
       [] q = "llm_result" -> LlmResultMax]

QMax(q) == env.maxsize[q]

\* the queue a thread of kind k sends to
OutQ(k) ==
  CASE k = "cap" -> "cap_audio"
    [] k = "a2s" -> "stt_audio"
    [] k = "stt" -> "stt_result"
    [] k = "s2l" -> "llm_text"
    [] k = "llm" -> "llm_result"

\* the queue a thread of kind k receives from
InQ(k) ==
  CASE k = "a2s" -> "cap_audio"
    [] k = "stt" -> "stt_audio"
    [] k = "s2l" -> "stt_result"
    [] k = "llm" -> "llm_text"
    [] k = "l2d" -> "llm_result"

\* mutant of RunFlag: a loop whose test never finds its flag cleared
RunFlagStuck(k) == TRUE

\* the running flag the loop of a thread of kind k tests
RunFlag(k) ==
  CASE k = "cap" -> cap_running
    [] k = "stt" -> stt_running
    [] k = "llm" -> llm_running
    [] k \in Forwarders -> pipe_running

\* queue.Queue.full(): 0 < maxsize <= qsize
QFull(s, max) == Len(s) >= max

\* mutant of PutNowait: a put that does not test for fullness
PutNowaitUnbounded(s, max, x) == Append(s, x)

\* queue.Queue.put_nowait(x): the contents afterwards; when the queue is
\* full it raises queue.Full and the contents are unchanged
PutNowait(s, max, x) == IF QFull(s, max) THEN s ELSE Append(s, x)

\* STTProcessor.put_audio(audio_data): the audio_queue afterwards
PutAudio(s, x) == PutNowait(s, QMax("stt_audio"), x)

\* LLMProcessor.put_text(text): the text_queue afterwards
PutText(s, x) == PutNowait(s, QMax("llm_text"), x)

\* mutant of GetHead: a get that returns the newest item
GetNewest(s) == s[Len(s)]

\* queue.Queue.get_nowait() / get(timeout) on a non-empty queue
GetHead(s) == Head(s)
GetRest(s) == Tail(s)

\* snap after thread t has changed queue q: the snapshot of every other
\* producer of q is void
Disturb(t, q) ==
  [u \in Threads |->
     IF u # t /\ u[1] \in Producers /\ OutQ(u[1]) = q THEN NoSnap ELSE snap[u]]

(***************************************************************************)
(* Texts are sequences of one-character strings; a formatted string is the *)
(* sequence of its fragments, each literal fragment being one element.     *)
(***************************************************************************)
\* the characters str.strip() removes: those for which str.isspace() is
\* true; the ones TLA+ cannot write are named by their code point
Whitespace ==
  {" ", "\t", "\n", "\r", "\f", "U+000B", "U+001C", "U+001D", "U+001E",
   "U+001F", "U+0085", "U+00A0", "U+1680", "U+2000", "U+2001", "U+2002",
   "U+2003", "U+2004", "U+2005", "U+2006", "U+2007", "U+2008", "U+2009",
   "U+200A", "U+2028", "U+2029", "U+202F", "U+205F", "U+3000"}

IsSpace(c) == c \in Whitespace

RECURSIVE LStrip(_)
LStrip(s) ==
  IF s = <<>> THEN s
  ELSE IF IsSpace(Head(s)) THEN LStrip(Tail(s)) ELSE s

RECURSIVE RStrip(_)
RStrip(s) ==
  IF s = <<>> THEN s
  ELSE IF IsSpace(s[Len(s)]) THEN RStrip(SubSeq(s, 1, Len(s) - 1)) ELSE s

\* str.strip()
Strip(s) == RStrip(LStrip(s))

\* outputs of STTModule.transcribe_stream on one chunk: (full_text, words);
\* the empty text stands for silence, a recognizer that is not ready and a
\* recognizer that raised (transcribe returns "", [] in all three cases)
RecogOutputs ==
  { [text |-> <<>>, words |-> <<>>],
    [text |-> <<"a">>, words |-> << <<"a">> >>] }

\* outputs of transcribe_stream whose word lists repeat a word or hold an
\* empty word (words are w["word"].strip(), or the characters of the text)
PartialOutputs ==
  { [text |-> <<>>, words |-> <<>>],
    [text |-> <<"a", "a">>, words |-> << <<"a">>, <<"a">> >>],
    [text |-> <<"a", "b">>, words |-> << <<"a">>, <<>>, <<"b">> >>] }

\* an output of transcribe_stream with two different words
CallbackOutputs ==
  { [text |-> <<"a", "b">>, words |-> << <<"a">>, <<"b">> >>] }

\* outputs of LLMModule.translate on a non-blank text: the stripped
\* completion, or "" when the model is not ready or raised
TranslateOutputs == { <<>>, <<"z">> }

\* outputs of LLMModule.generate_summary ("" also when not ready or raised)
SummaryOutputs == { <<>>, <<"s">>, <<"s", "t", "u">> }

(***************************************************************************)
(* ContextManager (src/modules/context_manager.py)                         *)
(***************************************************************************)
\* mutant of DequeAppend: a full deque drops the new entry
DequeAppendKeepOld(h, e, maxlen) ==
  IF Len(h) >= maxlen THEN h ELSE Append(h, e)

\* collections.deque(maxlen=n).append(e)
DequeAppend(h, e, maxlen) ==
  IF maxlen = 0 THEN <<>>
  ELSE IF Len(h) >= maxlen THEN Append(Tail(h), e) ELSE Append(h, e)

\* "..." and " → " of SimpleContextManager._update_summary, one element
\* for each character
Dots == <<".", ".", ".">>
Arrow == <<" ", ">", " ">>

\* " → ".join(item['original'][:30] + "..." for item in items)
RECURSIVE JoinParts(_)
JoinParts(items) ==
  IF items = <<>> THEN <<>>
  ELSE LET o == Head(items).original
           part == SubSeq(o, 1, Min(Len(o), SimplePrefix)) \o Dots
       IN IF Len(items) = 1 THEN part
          ELSE part \o Arrow \o JoinParts(Tail(items))

\* SimpleContextManager._update_summary: " → ".join(summary_parts) for
\* "recent = list(self.history)[-3:]"
SimpleJoined(h) ==
  LET n == Min(SimpleRecent, Len(h))
  IN JoinParts(SubSeq(h, Len(h) - n + 1, Len(h)))

\* "self.context_summary[:self.max_context_length] + '...'": the slice of
\* a summary that is not longer than the maximum is the whole summary
SimpleCut(summary) ==
  SubSeq(summary, 1, Min(Len(summary), max_context_length)) \o Dots

\* SimpleContextManager._update_summary: the summary afterwards
SimpleSummary(h, cur) ==
  IF Len(h) < 2 THEN cur
  ELSE IF Len(SimpleJoined(h)) > max_context_length
       THEN SimpleCut(SimpleJoined(h))
       ELSE SimpleJoined(h)

\* _update_summary gets as far as generating a summary from the history h:
\* the SimpleContextManager needs two entries, the ContextManager two
\* entries and an LLM
GeneratorRuns(h) == Len(h) >= 2 /\ (ctx_simple \/ ctx_llm)

\* mutant of UpdateSummary: a failed generation loses the summary
UpdateSummaryLosing(h, cur, genout) ==
  IF ctx_simple THEN SimpleSummary(h, cur)
  ELSE IF ~ctx_llm \/ Len(h) < 2 THEN cur
  ELSE SubSeq(genout, 1, Min(Len(genout), max_context_length))

\* ContextManager._update_summary / SimpleContextManager._update_summary:
\* the summary afterwards, genout being what llm.generate_summary returned
UpdateSummary(h, cur, genout) ==
  IF ctx_simple THEN SimpleSummary(h, cur)
  ELSE IF ~ctx_llm \/ Len(h) < 2 THEN cur
  ELSE IF genout # <<>>
       THEN SubSeq(genout, 1, Min(Len(genout), max_context_length))
       ELSE cur

\* "if self.sentence_count % self.update_interval == 0"
SummaryDue(count) == count % update_interval = 0

\* mutant of Blank: no original counts as blank
BlankNever(original) == FALSE

\* "if not original.strip(): return"
Blank(original) == Strip(original) = <<>>

\* "self.history.append({...})" of add_sentence: the history afterwards
AppendEntry(original, translation) ==
  DequeAppend(history,
              [original |-> Strip(original),
               translation |-> Strip(translation)],
              window_size)

\* ContextManager.add_sentence(original, translation)
AddSentence(original, translation, genout) ==
  /\ IF Blank(original)
     THEN UNCHANGED <<history, sentence_count>>
     ELSE /\ history' = AppendEntry(original, translation)
          /\ sentence_count' = sentence_count + 1
  /\ context_summary' =
       IF ~Blank(original) /\ SummaryDue(sentence_count + 1)
       THEN UpdateSummary(history', context_summary, genout)
       ELSE context_summary

\* hist after add_sentence(original, translation) on the present state
NoteAdd(original, translation, genout) ==
  IF Strip(original) = <<>> THEN [hist EXCEPT !.gen = "none"]
  ELSE LET runs == /\ SummaryDue(sentence_count + 1)
                   /\ GeneratorRuns(history')
       IN [hist EXCEPT
             !.accepted = Append(@, [original |-> Strip(original),
                                     translation |-> Strip(translation)]),
             !.regen = IF runs THEN @ + 1 ELSE @,
             !.gen = IF ~runs THEN "none"
                     ELSE IF ctx_simple \/ genout # <<>> THEN "ok"
                     ELSE "failed"]

RECURSIVE RecentLines(_)
RecentLines(items) ==
  IF items = <<>> THEN <<>>
  ELSE <<"<nl>", "- ">> \o Head(items).original \o RecentLines(Tail(items))

\* mutant of GetRecentContext: only the last entry is listed
GetRecentContextLast(h) ==
  IF h = <<>> THEN <<>>
  ELSE <<"recent:">> \o RecentLines(<<h[Len(h)]>>)

\* ContextManager._get_recent_context(num_sentences = 2)
GetRecentContext(h) ==
  IF h = <<>> THEN <<>>
  ELSE LET n == Min(NumRecent, Len(h))
           recent == SubSeq(h, Len(h) - n + 1, Len(h))
       IN <<"recent:">> \o RecentLines(recent)

\* get_context_summary() with a summary: the summary, and the recent
\* entries when there are any
WithSummary(summary, recent) ==
  IF recent # <<>>
  THEN <<"context: ">> \o summary \o <<"<nl>", "<nl>">> \o recent
  ELSE <<"context: ">> \o summary

\* ContextManager.get_context_summary()
GetContextSummary(h, summary) ==
  IF summary = <<>> THEN GetRecentContext(h)
  ELSE WithSummary(summary, GetRecentContext(h))

\* get_translation_context(): the reference text around a context
ReferenceText(context) ==
  IF context = <<>> THEN <<>>
  ELSE <<"<nl>", "reference:", "<nl>">> \o context \o <<"<nl>">>

\* ContextManager.get_translation_context()
GetTranslationContext(h, summary) ==
  ReferenceText(GetContextSummary(h, summary))

\* mutant of ImportHistory: the append loop stops after the first item
ImportHistoryFirstOnly(h, items, maxlen) ==
  IF items = <<>> THEN h
  ELSE DequeAppend(h, Head(items), maxlen)

\* ContextManager.export_context(): the dict returned
ExportContext ==
  [history |-> history, summary |-> context_summary,
   sentence_count |-> sentence_count]

\* ContextManager.import_context: "for item in ...: self.history.append(item)"
\* on the deque h
RECURSIVE ImportHistory(_, _, _)
ImportHistory(h, items, maxlen) ==
  IF items = <<>> THEN h
  ELSE ImportHistory(DequeAppend(h, Head(items), maxlen), Tail(items),
                     maxlen)

\* ContextManager.import_context(data) into a manager whose deque has
\* maxlen window_size: history, summary and counter afterwards
ImportContext(data) ==
  [history |-> ImportHistory(<<>>, data.history, window_size),
   summary |-> data.summary,
   sentence_count |-> data.sentence_count]

(***************************************************************************)
(* Thread loops.  Every loop is  while <flag>: try: ... except: ...        *)
(***************************************************************************)
\* where a thread is between two iterations of its loop: at the loop test
\* "while self.is_running" or, having found the flag True, at or inside the
\* blocking call the iteration begins with, stream.read(1024) or
\* queue.get(timeout).  A thread at the test that finds the flag True does
\* just what it does from the blocking call, so one position stands for
\* both; what a thread still at the test does once the flag is False is
\* LoopExit.
FirstPc(k) == IF k = "cap" THEN "read" ELSE "get"

\* the positions of the caller of start() at which the running flag of the
\* loops of kind k is yet to be set True by the start() in progress:
\* STTProcessor.start() and LLMProcessor.start() set theirs at once,
\* AudioCapture.start() once the stream is open, the pipeline sets its own,
\* the flag of the forwarders, after audio_capture.start() has returned
FlagSetPcs(k) ==
  CASE k = "stt" -> {"s_stt"}
    [] k = "llm" -> {"s_stt", "s_llm"}
    [] k = "cap" -> {"s_stt", "s_llm", "s_cap", "s_cap_flag",
                     "c_dev", "c_flag"}
    [] k \in Forwarders -> {"s_stt", "s_llm", "s_cap", "s_cap_flag",
                            "s_cap_buf", "s_cap_thread", "s_flag"}

\* the running flag of the loops of kind k can be set True again while a
\* thread of kind k is at its loop test: by the start() in progress, or by
\* a later start() that passes its guard, unless the threads of kind k have
\* ended by then (the joins of stop() wait for them, env.join_waits, or the
\* caller lets them end before it calls start(), env.settled)
FlagPending(k) ==
  \/ gen < env.starts /\ k \notin env.join_waits \cup env.settled
  \/ ctl_pc \in FlagSetPcs(k)

\* the end of an iteration: the thread is back at the loop test.  With the
\* flag True that is the position FirstPc.  With the flag False the thread
\* is at "loop", where it reads the flag when it is scheduled (LoopExit):
\* a start() may set it True before that.  Where no start() can set the
\* flag again the test finds it False whenever it comes, and the thread
\* has ended.
Again(t) ==
  IF RunFlag(t[1]) THEN FirstPc(t[1])
  ELSE IF FlagPending(t[1]) THEN "loop" ELSE "done"

\* mutant of AfterFailure: an exception ends the loop
AfterFailureEnds(t) == "done"

\* "except Exception as e:" of a loop, up to its time.sleep(0.1): the
\* thread sleeps and tests the running flag of the loop when it wakes
AfterFailure(t) == "sleep"

\* the end of the time.sleep(0.1) of an except clause and the loop test
\* that follows
ExceptSleep(t) ==
  /\ pc[t] = "sleep"
  /\ pc' = [pc EXCEPT ![t] = Again(t)]
  /\ UNCHANGED <<flagVars, capVars, queue, ctxVars, hist, item, snap,
                 last_op, ctlVars>>

\* pc after threading.Thread(target=loop).start(): the new thread is at the
\* first "while self.is_running" of its loop
Spawn(k) == [pc EXCEPT ![<<k, gen>>] = FirstPc(k)]

\* "while self.is_running:" read by a thread at the loop test.  A thread
\* at FirstPc that was still at the test when the flag was cleared leaves
\* the loop without another get or read, whatever its queue holds; a
\* thread at "loop" goes on with the next iteration when a start() has set
\* the flag True meanwhile, and leaves the loop otherwise
LoopExit(t) ==
  /\ \/ /\ pc[t] = FirstPc(t[1])
        /\ ~RunFlag(t[1])
        /\ pc' = [pc EXCEPT ![t] = "done"]
     \/ /\ pc[t] = "loop"
        /\ pc' = [pc EXCEPT ![t] = IF RunFlag(t[1]) THEN FirstPc(t[1])
                                   ELSE "done"]
  /\ UNCHANGED <<flagVars, capVars, queue, ctxVars, hist, item, snap,
                 last_op, ctlVars>>

\* pc after a threading.Thread(target=loop).start() that raised: the
\* Thread object has been assigned to process_thread / capture_thread and
\* was never started
Unstarted(k) == [pc EXCEPT ![<<k, gen>>] = "unstarted"]

\* the number of a chunk: the number of its first sample (0 for a chunk of
\* no samples)
ChunkNo(samples) == IF samples = <<>> THEN 0 ELSE samples[1]

\* int(sample_rate * chunk_duration) of AudioCapture.__init__, for a
\* sample rate and a duration that are not negative
ChunkSizeOf(rate, duration) == (rate * duration) \div DurationUnit

\* mutant of SliceChunk: the whole buffer is sent as the chunk
SliceWhole(buf, n) == buf

\* "chunk = self.buffer[:self.chunk_size]"
SliceChunk(buf, n) == SubSeq(buf, 1, Min(n, Len(buf)))

\* mutant of SliceRest: the partial chunk is discarded
SliceRestNone(buf, n) == <<>>

\* "self.buffer = self.buffer[self.chunk_size:]"
SliceRest(buf, n) == SubSeq(buf, n + 1, Len(buf))

\* the numbers of samples a processed frame can have
FrameLengths == IF env.short_frames THEN 1..frame_len ELSE {frame_len}

\* the n samples of the next frame, after _process_audio_data
NextFrame(n) == [i \in 1..n |-> frames_read * frame_len + i]

\* mutant of BufferAfterFailure: the frame is appended all the same
BufferAfterFailureAppended(buf, frame) == buf \o frame

\* self.buffer after an iteration that raised before "self.buffer =
\* np.concatenate([self.buffer, processed_data])"
BufferAfterFailure(buf, frame) == buf

\* the device has a frame for the capture thread
\* the positions of the caller inside AudioCapture.start(), called by
\* TranslationPipeline.start() ("s_...") or directly ("c_..."): before
\* set_device and audio.open, before "self.is_running = True", before the
\* assignment of the empty buffer, before the Thread is made and started
CaptureStartPcs ==
  {"s_cap", "s_cap_flag", "s_cap_buf", "s_cap_thread",
   "c_dev", "c_flag", "c_buf", "c_thread"}

\* a capture thread that an earlier start() started is alive (the join of
\* the stop() in between timed out): it runs its loop while start() opens
\* the stream, sets the flag, empties the buffer and starts the new thread
CaptureRacing == \E g \in Gens : Alive(<<"cap", g>>)

FrameReady ==
  frames_read < (IF gen < env.starts THEN env.early ELSE env.frames)

\* self.buffer is read and assigned without a lock.  While capture thread t
\* is inside an iteration the buffer can be assigned by another capture
\* thread that is alive, and by a start() that passes its guard after a
\* stop() whose join timed out (which also spawns such a thread).  Where
\* neither exists nor can come, the reads and writes of one iteration are
\* seen by no one else and are taken in one step.
Racing(t) ==
  \/ \E g \in Gens : g # t[2] /\ Alive(<<"cap", g>>)
  \/ gen < env.starts /\ "cap" \notin env.join_waits
  \/ ctl_pc \in CaptureStartPcs

\* the positions of the capture loop between the read of a frame and the
\* put of a chunk: the reads and the writes of self.buffer, one by one
BufferPcs == {"concat", "store", "test", "slice", "rest", "keep"}

\* AudioCapture._capture_loop, from the test of the stream to the slice of
\* one chunk: stream.read and _process_audio_data; the read of self.buffer
\* for np.concatenate and the assignment of the result; the read for the
\* test against chunk_size; the read for the chunk; the read for the rest
\* and the assignment of the rest
CapRead(t) ==
  /\ t[1] = "cap"
  /\ pc[t] \in {"read"} \cup BufferPcs
  /\ CASE pc[t] = "read" ->
          \E n \in FrameLengths :
            \/ \* a frame is read and processed
               /\ stream_open
               /\ FrameReady
               /\ frames_read' = frames_read + 1
               /\ IF Racing(t)
                  THEN /\ item' = [item EXCEPT ![t] =
                                     [tag |-> "frame",
                                     samples |-> NextFrame(n)]]
                       /\ pc' = [pc EXCEPT ![t] = "concat"]
                       /\ UNCHANGED <<buffer, hist>>
                  ELSE LET buf == buffer \o NextFrame(n)
                       IN IF Len(buf) >= chunk_size
                          THEN /\ buffer' = SliceRest(buf, chunk_size)
                               /\ item' = [item EXCEPT ![t] =
                                    [tag |-> "chunk",
                                     samples |-> SliceChunk(buf, chunk_size)]]
                               /\ hist' = [hist EXCEPT !.emitted =
                                    Append(@,
                                      ChunkNo(SliceChunk(buf, chunk_size)))]
                               /\ pc' = [pc EXCEPT ![t] = "put"]
                          ELSE /\ buffer' = buf
                               /\ item' = item
                               /\ hist' = hist
                               /\ pc' = [pc EXCEPT ![t] = Again(t)]
            \/ \* no stream: time.sleep(0.01); or the read of a stream that
               \* stop() has closed raises: time.sleep(0.1); then the loop
               \* test.  The iteration changes nothing, so that the sleep
               \* and the test after it are this step taken when the sleep
               \* ends.
               /\ pc' = [pc EXCEPT ![t] = Again(t)]
               /\ UNCHANGED <<buffer, item, frames_read, hist>>
            \/ \* stream.read raises, or it returns a frame and
               \* np.frombuffer, reshape or _process_audio_data raises:
               \* the except clause
               /\ stream_open
               /\ Len(hist.read_failed) < env.read_faults
               /\ \E consumed \in BOOLEAN :
                    /\ consumed => FrameReady
                    /\ frames_read' = frames_read + (IF consumed THEN 1 ELSE 0)
               /\ buffer' = BufferAfterFailure(buffer, NextFrame(n))
               /\ hist' = [hist EXCEPT !.read_failed = Append(@, frames_read)]
               /\ item' = item
               /\ pc' = [pc EXCEPT ![t] = AfterFailure(t)]
       [] pc[t] = "concat" ->
            \* np.concatenate([self.buffer, processed_data])
            /\ item' = [item EXCEPT ![t] =
                          [tag |-> "buffer",
                           samples |-> buffer \o item[t].samples]]
            /\ pc' = [pc EXCEPT ![t] = "store"]
            /\ UNCHANGED <<buffer, frames_read, hist>>
       [] pc[t] = "store" ->
            \* self.buffer = <the concatenation>
            /\ buffer' = item[t].samples
            /\ item' = [item EXCEPT ![t] = NoItem]
            /\ pc' = [pc EXCEPT ![t] = "test"]
            /\ UNCHANGED <<frames_read, hist>>
       [] pc[t] = "test" ->
            \* if len(self.buffer) >= self.chunk_size:
            /\ pc' = [pc EXCEPT ![t] = IF Len(buffer) >= chunk_size
                                       THEN "slice" ELSE Again(t)]
            /\ UNCHANGED <<buffer, item, frames_read, hist>>
       [] pc[t] = "slice" ->
            \* chunk = self.buffer[:self.chunk_size]
            /\ item' = [item EXCEPT ![t] =
                          [tag |-> "chunk",
                           samples |-> SliceChunk(buffer, chunk_size)]]
            /\ hist' = [hist EXCEPT !.emitted =
                          Append(@, ChunkNo(SliceChunk(buffer, chunk_size)))]
            /\ pc' = [pc EXCEPT ![t] = "rest"]
            /\ UNCHANGED <<buffer, frames_read>>
       [] pc[t] = "rest" ->
            \* self.buffer[self.chunk_size:]
            /\ item' = [item EXCEPT ![t] =
                          [tag |-> "chunk", samples |-> item[t].samples,
                           rest |-> SliceRest(buffer, chunk_size)]]
            /\ pc' = [pc EXCEPT ![t] = "keep"]
            /\ UNCHANGED <<buffer, frames_read, hist>>
       [] pc[t] = "keep" ->
            \* self.buffer = <the rest>
            /\ buffer' = item[t].rest
            /\ item' = [item EXCEPT ![t] =
                          [tag |-> "chunk", samples |-> item[t].samples]]
            /\ pc' = [pc EXCEPT ![t] = "put"]
            /\ UNCHANGED <<frames_read, hist>>
  /\ UNCHANGED <<flagVars, stream_open, sample_rate, chunk_duration,
                 chunk_size, frame_len, queue, ctxVars,
                 snap, last_op, ctlVars>>

\* mutant of ProducerPut: a blocking put(), which waits for a free slot
ProducerPutBlocking(t) ==
  /\ t[1] \in Producers
  /\ pc[t] = "put"
  /\ LET q == OutQ(t[1])
     IN /\ ~QFull(queue[q], QMax(q))
        /\ queue' = [queue EXCEPT ![q] = Append(@, item[t])]
        /\ pc' = [pc EXCEPT ![t] = Again(t)]
        /\ item' = [item EXCEPT ![t] = NoItem]
        /\ snap' = Disturb(t, q)
        /\ last_op' = Op(t, "put")
  /\ UNCHANGED <<flagVars, capVars, ctxVars, hist, ctlVars>>

\* the first put_nowait of a producer loop (capture loop, STT worker, LLM
\* worker); queue.Full leads to the handler that evicts
ProducerPut(t) ==
  /\ t[1] \in Producers
  /\ pc[t] = "put"
  /\ LET q == OutQ(t[1])
     IN /\ queue' = [queue EXCEPT ![q] = PutNowait(@, QMax(q), item[t])]
        /\ IF QFull(queue[q], QMax(q))
           THEN /\ pc' = [pc EXCEPT ![t] = "evict"]
                /\ item' = item
                /\ snap' = [snap EXCEPT ![t] = queue[q]]
                /\ last_op' = Op(t, "full")
           ELSE /\ pc' = [pc EXCEPT ![t] = Again(t)]
                /\ item' = [item EXCEPT ![t] = NoItem]
                /\ snap' = Disturb(t, q)
                /\ last_op' = Op(t, "put")
  /\ UNCHANGED <<flagVars, capVars, ctxVars, hist, ctlVars>>

\* mutant of ProducerEvict: removes the newest item instead of the oldest
ProducerEvictNewest(t) ==
  /\ t[1] \in Producers
  /\ pc[t] = "evict"
  /\ LET q == OutQ(t[1])
     IN IF queue[q] # <<>>
        THEN /\ queue' = [queue EXCEPT ![q] = SubSeq(@, 1, Len(@) - 1)]
             /\ pc' = [pc EXCEPT ![t] = "reput"]
             /\ item' = item
             /\ snap' = Disturb(t, q)
             /\ last_op' = Op(t, "evict")
        ELSE /\ queue' = queue
             /\ pc' = [pc EXCEPT ![t] = Again(t)]
             /\ item' = [item EXCEPT ![t] = NoItem]
             /\ snap' = [snap EXCEPT ![t] = NoSnap]
             /\ last_op' = Op(t, "lost_empty")
  /\ UNCHANGED <<flagVars, capVars, ctxVars, hist, ctlVars>>

\* "except queue.Full: try: get_nowait()"; queue.Empty is swallowed by the
\* bare "except: pass" and the item is given up
ProducerEvict(t) ==
  /\ t[1] \in Producers
  /\ pc[t] = "evict"
  /\ LET q == OutQ(t[1])
     IN IF queue[q] # <<>>
        THEN /\ queue' = [queue EXCEPT ![q] = GetRest(@)]
             /\ pc' = [pc EXCEPT ![t] = "reput"]
             /\ item' = item
             /\ snap' = Disturb(t, q)
             /\ last_op' = Op(t, "evict")
        ELSE /\ queue' = queue
             /\ pc' = [pc EXCEPT ![t] = Again(t)]
             /\ item' = [item EXCEPT ![t] = NoItem]
             /\ snap' = [snap EXCEPT ![t] = NoSnap]
             /\ last_op' = Op(t, "lost_empty")
  /\ UNCHANGED <<flagVars, capVars, ctxVars, hist, ctlVars>>

\* the second put_nowait, inside the same try; queue.Full is swallowed by
\* the bare "except: pass"
ProducerReput(t) ==
  /\ t[1] \in Producers
  /\ pc[t] = "reput"
  /\ LET q == OutQ(t[1])
     IN /\ queue' = [queue EXCEPT ![q] = PutNowait(@, QMax(q), item[t])]
        /\ snap' = [(IF queue'[q] # queue[q] THEN Disturb(t, q) ELSE snap)
                      EXCEPT ![t] = NoSnap]
        /\ last_op' = Op(t, IF QFull(queue[q], QMax(q)) THEN "lost_full"
                            ELSE IF snap[t] # NoSnap THEN "replaced"
                            ELSE "reput")
  /\ pc' = [pc EXCEPT ![t] = Again(t)]
  /\ item' = [item EXCEPT ![t] = NoItem]
  /\ UNCHANGED <<flagVars, capVars, ctxVars, hist, ctlVars>>

\* AudioCapture.get_audio_chunk(timeout=0.5) in _audio_to_stt_loop
A2sGet(t) ==
  /\ t[1] = "a2s"
  /\ pc[t] = "get"
  /\ LET q == InQ("a2s")
     IN IF queue[q] = <<>>
        THEN /\ pc' = [pc EXCEPT ![t] = Again(t)]
             /\ UNCHANGED <<queue, item, snap, last_op>>
        ELSE /\ queue' = [queue EXCEPT ![q] = GetRest(@)]
             /\ item' = [item EXCEPT ![t] = GetHead(queue[q])]
             /\ pc' = [pc EXCEPT ![t] = "put"]
             /\ snap' = Disturb(t, q)
             /\ last_op' = Op(t, "get")
  /\ UNCHANGED <<flagVars, capVars, ctxVars, hist, ctlVars>>

\* "word not in partial_text": w occurs in s as a substring
IsSubstring(w, s) ==
  \E i \in 1..(Len(s) - Len(w) + 1) : SubSeq(s, i, i + Len(w) - 1) = w

\* "if word and word not in partial_text:"
NewWord(word, partial_text) ==
  word # <<>> /\ ~IsSubstring(word, partial_text)

\* the words on_partial_text is called with in the loop over the words of
\* one result, partial_text being the text accumulated before
RECURSIVE PartialCalls(_, _)
PartialCalls(words, partial_text) ==
  IF words = <<>> THEN <<>>
  ELSE IF NewWord(Head(words), partial_text)
       THEN <<Head(words)>> \o PartialCalls(Tail(words),
                                            partial_text \o Head(words))
       ELSE PartialCalls(Tail(words), partial_text)

\* "partial_text += word" for every word of calls
RECURSIVE Accumulate(_, _)
Accumulate(partial_text, calls) ==
  IF calls = <<>> THEN partial_text
  ELSE Accumulate(partial_text \o Head(calls), Tail(calls))

\* the local variable partial_text of a forwarder: "" when an iteration
\* begins, unless a callback raised before "partial_text = ''" was reached
PartialText(it) == IF it.tag = "partial" THEN it.text ELSE <<>>
KeepPartial(text) ==
  IF text = <<>> THEN NoItem ELSE [tag |-> "partial", text |-> text]

\* self.on_partial_text and self.on_translation are read and assigned
\* without a lock: while the caller can still call set_callbacks, or is
\* inside it, the test of a callback and each call of it are steps of their
\* own, apart from the get that precedes them
CallbacksRacing == env.cb_sets > 0 \/ ctl_pc = "cb_translation"

\* hist.partial with one more transcript passed to the word loop
NotePartial(result, called, raised) ==
  [hist EXCEPT !.partial =
     Append(@, [src |-> ChunkNo(result.src), words |-> result.words,
                calls |-> called, raised |-> raised])]

\* STTProcessor.get_result(timeout=0.1) in _stt_to_llm_loop, up to the call
\* of put_text: the on_partial_text calls, of which one may raise and send
\* the loop to its except clause; while set_callbacks can be called, up to
\* "if self.on_partial_text and words:"
S2lGet(t) ==
  /\ t[1] = "s2l"
  /\ pc[t] = "get"
  /\ LET q == InQ("s2l")
     IN IF queue[q] = <<>>
        THEN /\ pc' = [pc EXCEPT ![t] = Again(t)]
             /\ UNCHANGED <<queue, item, snap, last_op, hist>>
        ELSE LET result == GetHead(queue[q])
                 due == env.on_partial /\ result.words # <<>>
                 calls == IF env.on_partial
                          THEN PartialCalls(result.words, PartialText(item[t]))
                          ELSE <<>>
                 Note(called, raised) ==
                   IF due THEN NotePartial(result, called, raised) ELSE hist
             IN /\ queue' = [queue EXCEPT ![q] = GetRest(@)]
                /\ snap' = Disturb(t, q)
                /\ last_op' = Op(t, "get")
                /\ IF result.text = <<>>
                   THEN /\ item' = item
                        /\ hist' = hist
                        /\ pc' = [pc EXCEPT ![t] = Again(t)]
                   ELSE IF CallbacksRacing
                   THEN /\ item' = [item EXCEPT ![t] =
                                      [tag |-> "words",
                                       text |-> result.text,
                                       src |-> result.src,
                                       words |-> result.words,
                                       partial |-> PartialText(item[t]),
                                       no |-> 0]]
                        /\ hist' = hist
                        /\ pc' = [pc EXCEPT ![t] = "cb_test"]
                   ELSE \/ /\ item' = [item EXCEPT ![t] =
                                         [tag |-> "text",
                                          text |-> result.text,
                                          src |-> result.src]]
                           /\ pc' = [pc EXCEPT ![t] = "put"]
                           /\ hist' = Note(calls, FALSE)
                        \/ /\ env.cb_fails
                           /\ \E k \in 1..Len(calls) :
                                /\ item' = [item EXCEPT ![t] =
                                     KeepPartial(Accumulate(
                                       PartialText(item[t]),
                                       SubSeq(calls, 1, k - 1)))]
                                /\ hist' = Note(SubSeq(calls, 1, k), TRUE)
                           /\ pc' = [pc EXCEPT ![t] = AfterFailure(t)]
  /\ UNCHANGED <<flagVars, capVars, ctxVars, ctlVars>>

\* hist.partial after the call of on_partial_text for one more word of
\* transcript number no
NoteWord(no, word, raised) ==
  [hist EXCEPT !.partial[no] =
     [@ EXCEPT !.calls = IF word = <<>> THEN @ ELSE Append(@, word),
               !.raised = raised]]

\* while set_callbacks can be called: "if self.on_partial_text and words:"
\* of _stt_to_llm_loop, and then one pass of "for word in words:" per
\* step: the test of the word, self.on_partial_text(word), which raises
\* TypeError when the callback has been unset since the test of line 159,
\* and "partial_text += word"; after the last word the loop goes on to
\* put_text
S2lWord(t) ==
  /\ t[1] = "s2l"
  /\ pc[t] \in {"cb_test", "words"}
  /\ LET it == item[t]
         word == Head(it.words)
         ToPut == /\ item' = [item EXCEPT ![t] =
                                [tag |-> "text", text |-> it.text,
                                 src |-> it.src]]
                  /\ pc' = [pc EXCEPT ![t] = "put"]
         Done(partial) ==
           IF Tail(it.words) = <<>> THEN ToPut
           ELSE /\ item' = [item EXCEPT ![t] =
                              [it EXCEPT !.words = Tail(@),
                                         !.partial = partial]]
                /\ pc' = pc
         Raise == /\ item' = [item EXCEPT ![t] = KeepPartial(it.partial)]
                  /\ pc' = [pc EXCEPT ![t] = AfterFailure(t)]
     IN IF pc[t] = "cb_test"
        THEN IF env.on_partial /\ it.words # <<>>
             THEN /\ item' = [item EXCEPT ![t] =
                                [it EXCEPT !.no = Len(hist.partial) + 1]]
                  /\ hist' = NotePartial(it, <<>>, FALSE)
                  /\ pc' = [pc EXCEPT ![t] = "words"]
             ELSE /\ ToPut
                  /\ hist' = hist
        ELSE IF ~NewWord(word, it.partial)
        THEN /\ Done(it.partial)
             /\ hist' = hist
        ELSE IF ~env.on_partial
        THEN /\ Raise
             /\ hist' = NoteWord(it.no, <<>>, TRUE)
        ELSE \/ /\ Done(it.partial \o word)
                /\ hist' = NoteWord(it.no, word, FALSE)
             \/ /\ env.cb_fails
                /\ Raise
                /\ hist' = NoteWord(it.no, word, TRUE)
  /\ UNCHANGED <<flagVars, capVars, queue, ctxVars, snap, last_op, ctlVars>>

\* "if translation and self.on_translation:"
CallbackDue(translation, callback) == translation # <<>> /\ callback

\* hist after the call self.on_translation(original, translation, context)
\* for result
NoteDelivered(result, raised) ==
  [hist EXCEPT
     !.shown = Append(@, ChunkNo(result.src)),
     !.delivered = Append(@, [original |-> result.original,
                              translation |-> result.translation,
                              context |-> result.context,
                              src |-> ChunkNo(result.src),
                              raised |-> raised])]

\* LLMProcessor.get_result(timeout=0.1) in _llm_to_display_loop and the
\* on_translation callback, which may raise and send the loop to its
\* except clause; while set_callbacks can be called, the get only
L2dGet(t) ==
  /\ t[1] = "l2d"
  /\ pc[t] = "get"
  /\ LET q == InQ("l2d")
     IN IF queue[q] = <<>>
        THEN /\ pc' = [pc EXCEPT ![t] = Again(t)]
             /\ UNCHANGED <<queue, snap, last_op, hist, item>>
        ELSE LET result == GetHead(queue[q])
             IN /\ queue' = [queue EXCEPT ![q] = GetRest(@)]
                /\ snap' = Disturb(t, q)
                /\ last_op' = Op(t, "get")
                /\ IF CallbacksRacing
                   THEN /\ hist' = IF env.on_translation
                                   THEN [hist EXCEPT !.offered =
                                           @ \cup {ChunkNo(result.src)}]
                                   ELSE hist
                        /\ item' = [item EXCEPT ![t] = result]
                        /\ pc' = [pc EXCEPT ![t] = "cb_test"]
                   ELSE IF ~CallbackDue(result.translation,
                                        env.on_translation)
                   THEN /\ hist' = hist
                        /\ item' = item
                        /\ pc' = [pc EXCEPT ![t] = Again(t)]
                   ELSE \E raised \in {FALSE} \cup {env.cb_fails} :
                          /\ hist' = NoteDelivered(result, raised)
                          /\ item' = item
                          /\ pc' = [pc EXCEPT ![t] =
                                      IF raised THEN AfterFailure(t)
                                      ELSE Again(t)]
  /\ UNCHANGED <<flagVars, capVars, ctxVars, ctlVars>>

\* while set_callbacks can be called: "if translation and
\* self.on_translation:", and in a step of its own
\* "self.on_translation(original, translation, context)", which raises
\* TypeError when the callback has been unset since the test of line 191
L2dCall(t) ==
  /\ t[1] = "l2d"
  /\ pc[t] \in {"cb_test", "call"}
  /\ IF pc[t] = "cb_test"
     THEN /\ hist' = hist
          /\ IF CallbackDue(item[t].translation, env.on_translation)
             THEN /\ item' = item
                  /\ pc' = [pc EXCEPT ![t] = "call"]
             ELSE /\ item' = [item EXCEPT ![t] = NoItem]
                  /\ pc' = [pc EXCEPT ![t] = Again(t)]
     ELSE /\ item' = [item EXCEPT ![t] = NoItem]
          /\ IF ~env.on_translation
             THEN /\ hist' = hist
                  /\ pc' = [pc EXCEPT ![t] = AfterFailure(t)]
             ELSE \E raised \in {FALSE} \cup {env.cb_fails} :
                    /\ hist' = NoteDelivered(item[t], raised)
                    /\ pc' = [pc EXCEPT ![t] =
                                IF raised THEN AfterFailure(t)
                                ELSE Again(t)]
  /\ UNCHANGED <<flagVars, capVars, queue, ctxVars, snap, last_op, ctlVars>>

\* STTProcessor.put_audio / LLMProcessor.put_text called by a forwarder:
\* put_nowait, and on queue.Full a warning and "return False"
ForwarderPut(t) ==
  /\ t[1] \in {"a2s", "s2l"}
  /\ pc[t] = "put"
  /\ LET q == OutQ(t[1])
     IN /\ queue' = [queue EXCEPT ![q] =
                       IF t[1] = "a2s" THEN PutAudio(@, item[t])
                       ELSE PutText(@, item[t])]
        /\ last_op' = Op(t, IF QFull(queue[q], QMax(q)) THEN "reject"
                            ELSE "put")
  /\ pc' = [pc EXCEPT ![t] = Again(t)]
  /\ item' = [item EXCEPT ![t] = NoItem]
  /\ UNCHANGED <<flagVars, capVars, ctxVars, hist, snap, ctlVars>>

\* mutant of HasText: every recognizer output counts as a text
HasTextAlways(full_text) == TRUE

\* "if full_text:" of STTProcessor._process_loop
HasText(full_text) == full_text # <<>>

\* STTProcessor._process_loop: audio_queue.get(timeout=0.5), up to the call
\* self.stt.transcribe_stream(audio_data), in which the thread then is
SttGet(t) ==
  /\ t[1] = "stt"
  /\ pc[t] = "get"
  /\ LET q == InQ("stt")
     IN IF queue[q] = <<>>
        THEN /\ pc' = [pc EXCEPT ![t] = Again(t)]
             /\ UNCHANGED <<queue, item, last_op, hist>>
        ELSE /\ queue' = [queue EXCEPT ![q] = GetRest(@)]
             /\ last_op' = Op(t, "get")
             /\ item' = [item EXCEPT ![t] = GetHead(queue[q])]
             /\ hist' = [hist EXCEPT !.recog =
                           Append(@, ChunkNo(GetHead(queue[q]).samples))]
             /\ pc' = [pc EXCEPT ![t] = "transcribe"]
  /\ UNCHANGED <<flagVars, capVars, ctxVars, snap, ctlVars>>

\* STTProcessor._process_loop: transcribe_stream returns (or raises, which
\* the loop logs), "if full_text:" and, when there is no text, the loop test
SttTranscribe(t) ==
  /\ t[1] = "stt"
  /\ pc[t] = "transcribe"
  /\ \E out \in env.recog :
       IF HasText(out.text)
       THEN /\ item' = [item EXCEPT ![t] =
                          [tag |-> "stt", text |-> out.text,
                           words |-> out.words, src |-> item[t].samples]]
            /\ hist' = [hist EXCEPT !.produced =
                          Append(@, ChunkNo(item[t].samples))]
            /\ pc' = [pc EXCEPT ![t] = "put"]
       ELSE /\ item' = [item EXCEPT ![t] = NoItem]
            /\ hist' = hist
            /\ pc' = [pc EXCEPT ![t] = Again(t)]
  /\ UNCHANGED <<flagVars, capVars, queue, ctxVars, snap, last_op, ctlVars>>

\* the ContextManager is read and written without a lock by every LLM
\* worker.  While worker t is between two of its reads or writes the
\* manager can be changed by another worker that is alive, or that a
\* start() spawns once a stop() has returned from the join of t (unless
\* env.join_waits says that the worker ends within the timeout).  Where
\* neither exists nor can come, get_translation_context, add_sentence and
\* get_context_summary are each taken in one step; else every read and
\* every write of the manager is a step of its own.
WorkersRacing(t) ==
  \/ \E g \in Gens : g # t[2] /\ Alive(<<"llm", g>>)
  \/ gen < env.starts /\ "llm" \notin env.join_waits

\* record r with field f set to v
With(r, f, v) == [x \in DOMAIN r \cup {f} |-> IF x = f THEN v ELSE r[x]]

\* LLMProcessor._process_loop: text_queue.get(timeout=0.5)
LlmGet(t) ==
  /\ t[1] = "llm"
  /\ pc[t] = "get"
  /\ LET q == InQ("llm")
     IN IF queue[q] = <<>>
        THEN /\ pc' = [pc EXCEPT ![t] = Again(t)]
             /\ UNCHANGED <<queue, item, last_op, hist>>
        ELSE /\ queue' = [queue EXCEPT ![q] = GetRest(@)]
             /\ item' = [item EXCEPT ![t] = GetHead(queue[q])]
             /\ hist' = [hist EXCEPT !.llm_in =
                           Append(@, ChunkNo(GetHead(queue[q]).src))]
             /\ pc' = [pc EXCEPT ![t] = IF WorkersRacing(t) THEN "context"
                                         ELSE "translate"]
             /\ last_op' = Op(t, "get")
  /\ UNCHANGED <<flagVars, capVars, ctxVars, snap, ctlVars>>

\* mutant of Translated: every output of translate counts as a translation
TranslatedAlways(translation) == TRUE

\* "if translation:" of LLMProcessor._process_loop
Translated(translation) == translation # <<>>

\* mutant of ResultContext: the snapshot as it was before the newest entry
\* of the window was appended
ResultContextStale(h, summary) ==
  GetContextSummary(SubSeq(h, 1, Len(h) - 1), summary)

\* "context": self.context_manager.get_context_summary() of the result dict
ResultContext(h, summary) == GetContextSummary(h, summary)

\* the result dict of the LLM worker holding item it
ResultOf(it, h, summary) ==
  [tag |-> "res", original |-> it.original, translation |-> it.translation,
   context |-> ResultContext(h, summary), src |-> it.src]

\* get_context_summary() returns c to worker t: to
\* get_translation_context() ahead of llm.translate, or into the result
\* dict once the worker has a translation
ContextReturn(t, c) ==
  IF item[t].tag = "tr"
  THEN /\ item' = [item EXCEPT ![t] =
                     [tag |-> "res", original |-> item[t].original,
                      translation |-> item[t].translation,
                      context |-> c, src |-> item[t].src]]
       /\ pc' = [pc EXCEPT ![t] = "put"]
  ELSE /\ item' = [item EXCEPT ![t] =
                     [tag |-> "text", text |-> item[t].text,
                      src |-> item[t].src, context |-> ReferenceText(c)]]
       /\ pc' = [pc EXCEPT ![t] = "translate"]

\* _get_recent_context() returns recent inside get_context_summary():
\* without a summary at "if not self.context_summary" that is the context,
\* with one the summary is read again for the f-string
RecentReturn(t, recent) ==
  IF item[t].has_summary
  THEN /\ item' = [item EXCEPT ![t] = With(@, "recent", recent)]
       /\ pc' = [pc EXCEPT ![t] = "ctx_format"]
  ELSE ContextReturn(t, recent)

\* with another worker about, get_context_summary() read by read: "if not
\* self.context_summary" (for the result dict that is LlmSnapshot), "if not
\* self.history" and "list(self.history)[-num_sentences:]" of
\* _get_recent_context, and self.context_summary in the f-string
LlmContext(t) ==
  /\ t[1] = "llm"
  /\ pc[t] \in {"context", "ctx_recent", "ctx_list", "ctx_format"}
  /\ CASE pc[t] = "context" ->
            /\ item' = [item EXCEPT ![t] =
                          With(@, "has_summary", context_summary # <<>>)]
            /\ pc' = [pc EXCEPT ![t] = "ctx_recent"]
       [] pc[t] = "ctx_recent" ->
            IF history = <<>> THEN RecentReturn(t, <<>>)
            ELSE /\ item' = item
                 /\ pc' = [pc EXCEPT ![t] = "ctx_list"]
       [] pc[t] = "ctx_list" -> RecentReturn(t, GetRecentContext(history))
       [] pc[t] = "ctx_format" ->
            ContextReturn(t, WithSummary(context_summary, item[t].recent))
  /\ UNCHANGED <<flagVars, capVars, queue, ctxVars, hist, snap, last_op,
                 ctlVars>>

\* LLMProcessor._process_loop: get_translation_context (read by LlmContext
\* with another worker about) and llm.translate
LlmTranslate(t) ==
  /\ t[1] = "llm"
  /\ pc[t] = "translate"
  /\ \E tr \in env.translate :
       LET context == IF "context" \in DOMAIN item[t] THEN item[t].context
                      ELSE GetTranslationContext(history, context_summary)
           translation == IF Strip(item[t].text) = <<>> THEN <<>> ELSE tr
       IN IF Translated(translation)
          THEN /\ item' = [item EXCEPT ![t] =
                             [tag |-> "tr", original |-> item[t].text,
                              translation |-> translation,
                              context |-> context,
                              src |-> item[t].src]]
               /\ pc' = [pc EXCEPT ![t] = "record"]
          ELSE /\ item' = [item EXCEPT ![t] = NoItem]
               /\ pc' = [pc EXCEPT ![t] = Again(t)]
  /\ UNCHANGED <<flagVars, capVars, queue, ctxVars, hist, snap, last_op,
                 ctlVars>>

\* LLMProcessor._process_loop: context_manager.add_sentence, and the result
\* dict with the context snapshot; with another worker about, add_sentence
\* only as far as "self.history.append({...})", and not the result dict
LlmRecord(t) ==
  /\ t[1] = "llm"
  /\ pc[t] = "record"
  /\ IF WorkersRacing(t)
     THEN /\ item' = item
          /\ UNCHANGED <<sentence_count, context_summary>>
          /\ IF Blank(item[t].original)
             THEN /\ history' = history
                  /\ hist' = [hist EXCEPT !.gen = "none"]
                  /\ pc' = [pc EXCEPT ![t] = "snapshot"]
             ELSE /\ history' = AppendEntry(item[t].original,
                                            item[t].translation)
                  /\ hist' = [hist EXCEPT
                                !.accepted =
                                  Append(@, [original |->
                                               Strip(item[t].original),
                                             translation |->
                                               Strip(item[t].translation)]),
                                !.gen = "none"]
                  /\ pc' = [pc EXCEPT ![t] = "count"]
     ELSE /\ \E genout \in (IF ctx_llm THEN SummaryOutputs ELSE {<<>>}) :
               /\ AddSentence(item[t].original, item[t].translation,
                              genout)
               /\ hist' = NoteAdd(item[t].original, item[t].translation,
                                  genout)
          /\ item' = [item EXCEPT ![t] =
                        ResultOf(item[t], history', context_summary')]
          /\ pc' = [pc EXCEPT ![t] = "put"]
  /\ UNCHANGED <<flagVars, capVars, queue, window_size, update_interval,
                 max_context_length, ctx_llm, ctx_simple, snap, last_op,
                 ctlVars>>

\* with another worker about, the rest of add_sentence read by read and
\* write by write: "self.sentence_count += 1" (the read, then the write),
\* "if self.sentence_count % self.update_interval == 0", and
\* _update_summary: its guard; in ContextManager the return of
\* llm.generate_summary(prompt) with "if summary: self.context_summary =
\* summary[:self.max_context_length]" (an exception inside the try block
\* is logged and leaves the summary as it is, as an empty output does); in
\* SimpleContextManager "list(self.history)[-3:]", the assignment of the
\* joined parts, the test of its length, and the read and the write of the
\* truncation
LlmAddSentence(t) ==
  /\ t[1] = "llm"
  /\ pc[t] \in {"count", "count_w", "due", "guard", "summary", "s_read",
               "s_store", "s_len", "s_trunc", "s_trunc_w"}
  /\ CASE pc[t] = "count" ->
            /\ item' = [item EXCEPT ![t] = With(@, "count", sentence_count)]
            /\ pc' = [pc EXCEPT ![t] = "count_w"]
            /\ UNCHANGED <<sentence_count, context_summary, hist>>
       [] pc[t] = "count_w" ->
            /\ sentence_count' = item[t].count + 1
            /\ pc' = [pc EXCEPT ![t] = "due"]
            /\ UNCHANGED <<item, context_summary, hist>>
       [] pc[t] = "due" ->
            /\ pc' = [pc EXCEPT ![t] = IF SummaryDue(sentence_count)
                                       THEN "guard" ELSE "snapshot"]
            /\ UNCHANGED <<item, sentence_count, context_summary, hist>>
       [] pc[t] = "guard" ->
            /\ pc' = [pc EXCEPT ![t] =
                        IF ~GeneratorRuns(history) THEN "snapshot"
                        ELSE IF ctx_simple THEN "s_read" ELSE "summary"]
            /\ UNCHANGED <<item, sentence_count, context_summary, hist>>
       [] pc[t] = "summary" ->
            \E genout \in SummaryOutputs :
              /\ context_summary' =
                   IF genout # <<>>
                   THEN SubSeq(genout, 1,
                               Min(Len(genout), max_context_length))
                   ELSE context_summary
              /\ hist' = [hist EXCEPT
                            !.regen = @ + 1,
                            !.gen = IF genout # <<>> THEN "ok"
                                    ELSE "failed"]
              /\ pc' = [pc EXCEPT ![t] = "snapshot"]
              /\ UNCHANGED <<item, sentence_count>>
       [] pc[t] = "s_read" ->
            /\ item' = [item EXCEPT ![t] =
                          With(@, "summary", SimpleJoined(history))]
            /\ pc' = [pc EXCEPT ![t] = "s_store"]
            /\ UNCHANGED <<sentence_count, context_summary, hist>>
       [] pc[t] = "s_store" ->
            /\ context_summary' = item[t].summary
            /\ hist' = [hist EXCEPT !.regen = @ + 1, !.gen = "ok"]
            /\ pc' = [pc EXCEPT ![t] = "s_len"]
            /\ UNCHANGED <<item, sentence_count>>
       [] pc[t] = "s_len" ->
            /\ pc' = [pc EXCEPT ![t] =
                        IF Len(context_summary) > max_context_length
                        THEN "s_trunc" ELSE "snapshot"]
            /\ UNCHANGED <<item, sentence_count, context_summary, hist>>
       [] pc[t] = "s_trunc" ->
            /\ item' = [item EXCEPT ![t] =
                          With(@, "summary", SimpleCut(context_summary))]
            /\ pc' = [pc EXCEPT ![t] = "s_trunc_w"]
            /\ UNCHANGED <<sentence_count, context_summary, hist>>
       [] pc[t] = "s_trunc_w" ->
            /\ context_summary' = item[t].summary
            /\ pc' = [pc EXCEPT ![t] = "snapshot"]
            /\ UNCHANGED <<item, sentence_count, hist>>
  /\ UNCHANGED <<flagVars, capVars, queue, window_size, update_interval,
                 max_context_length, history, ctx_llm, ctx_simple, snap,
                 last_op, ctlVars>>

\* with another worker about, the result dict of
\* LLMProcessor._process_loop: its get_context_summary() starts with "if
\* not self.context_summary" and goes on in LlmContext
LlmSnapshot(t) ==
  /\ t[1] = "llm"
  /\ pc[t] = "snapshot"
  /\ item' = [item EXCEPT ![t] =
                With(@, "has_summary", context_summary # <<>>)]
  /\ pc' = [pc EXCEPT ![t] = "ctx_recent"]
  /\ UNCHANGED <<flagVars, capVars, queue, ctxVars, hist, snap, last_op,
                 ctlVars>>

(***************************************************************************)
(* TranslationPipeline.start() / stop() and the start()/stop() of the      *)
(* three components they call.  threading.Thread(...).start() either       *)
(* starts the thread or raises RuntimeError.  thread.join(timeout=2.0)     *)
(* returns when the thread has ended or when the timeout expires, and      *)
(* changes no state.                                                       *)
(***************************************************************************)
Ret(call, value, guard) == [call |-> call, value |-> value, guard |-> guard]

\* return from start()/stop() to the caller
Return(value, guard, ph) ==
  /\ ctl_ret' = Ret(ctl_call, value, guard)
  /\ ctl_pc' = "idle"
  /\ ctl_call' = "none"
  /\ phase' = ph

\* mutant of StartRefused: a start() that reports success when the
\* pipeline is running already
StartRefusedAsSuccess ==
  /\ ctl_ret' = Ret("start", "True", TRUE)
  /\ UNCHANGED <<ctl_pc, ctl_call, gen, spawned, phase>>

\* "if self.is_running: logger.warning(...); return False"
StartRefused ==
  /\ ctl_ret' = Ret("start", "False", TRUE)
  /\ UNCHANGED <<ctl_pc, ctl_call, gen, spawned, phase>>

\* TranslationPipeline.start(): the guard "if self.is_running"
StartCall ==
  /\ faults' = faults
  /\ env' = env
  /\ ctl_pc = "idle"
  /\ IF pipe_running
     THEN env.noop /\ StartRefused
     ELSE /\ gen < env.starts
          /\ \A k \in env.settled : AliveOf(k) = {}
          /\ gen' = gen + 1
          /\ ctl_call' = "start"
          /\ ctl_pc' = "s_stt"
          /\ spawned' = {}
          /\ phase' = "Starting"
          /\ UNCHANGED ctl_ret
  /\ UNCHANGED <<flagVars, capVars, queue, ctxVars, hist, threadVars>>

\* STTProcessor.start() / LLMProcessor.start(): the flag afterwards
ProcessorStartFlag(running) == TRUE

\* self.stt_processor.start()
StartStt ==
  /\ env' = env
  /\ ctl_pc = "s_stt"
  /\ IF stt_running
     THEN /\ ctl_pc' = "s_llm"
          /\ UNCHANGED <<stt_running, pc, faults>>
     ELSE /\ stt_running' = ProcessorStartFlag(stt_running)
          /\ \/ /\ pc' = Spawn("stt")
                /\ ctl_pc' = "s_llm"
                /\ faults' = faults
             \/ /\ faults < env.faults
                /\ faults' = faults + 1
                /\ pc' = Unstarted("stt")
                /\ ctl_pc' = "s_exc"
  /\ UNCHANGED <<pipe_running, cap_running, llm_running, capVars, queue,
                 ctxVars, hist, item, snap, last_op, ctl_call, ctl_ret, gen,
                 spawned, phase>>

\* self.llm_processor.start()
StartLlm ==
  /\ env' = env
  /\ ctl_pc = "s_llm"
  /\ IF llm_running
     THEN /\ ctl_pc' = "s_cap"
          /\ UNCHANGED <<llm_running, pc, faults>>
     ELSE /\ llm_running' = ProcessorStartFlag(llm_running)
          /\ \/ /\ pc' = Spawn("llm")
                /\ ctl_pc' = "s_cap"
                /\ faults' = faults
             \/ /\ faults < env.faults
                /\ faults' = faults + 1
                /\ pc' = Unstarted("llm")
                /\ ctl_pc' = "s_exc"
  /\ UNCHANGED <<pipe_running, cap_running, stt_running, capVars, queue,
                 ctxVars, hist, item, snap, last_op, ctl_call, ctl_ret, gen,
                 spawned, phase>>

\* self.audio_capture.start(device_index): one step while no older capture
\* thread is alive, else the open of the stream, the assignment of the
\* flag, the assignment of the buffer and the start of the thread one by one
StartCapture ==
  /\ env' = env
  /\ ctl_pc \in {"s_cap", "s_cap_flag", "s_cap_buf", "s_cap_thread"}
  /\ CASE ctl_pc = "s_cap" ->
            IF cap_running
            THEN /\ ctl_pc' = "s_rb_stt"
                 /\ UNCHANGED <<cap_running, stream_open, buffer, pc,
                                faults>>
            ELSE \/ \* set_device failed, or audio.open raised
                    /\ env.device_fails
                    /\ cap_running' = FALSE
                    /\ ctl_pc' = "s_rb_stt"
                    /\ UNCHANGED <<stream_open, buffer, pc, faults>>
                 \/ \* the stream is open and the capture thread runs
                    /\ ~CaptureRacing
                    /\ stream_open' = TRUE
                    /\ cap_running' = TRUE
                    /\ buffer' = <<>>
                    /\ pc' = Spawn("cap")
                    /\ ctl_pc' = "s_flag"
                    /\ faults' = faults
                 \/ \* the stream is open, the thread could not be started
                    /\ ~CaptureRacing
                    /\ faults < env.faults
                    /\ faults' = faults + 1
                    /\ stream_open' = TRUE
                    /\ cap_running' = FALSE
                    /\ buffer' = <<>>
                    /\ pc' = Unstarted("cap")
                    /\ ctl_pc' = "s_rb_stt"
                 \/ \* self.stream = self.audio.open(...)
                    /\ CaptureRacing
                    /\ stream_open' = TRUE
                    /\ ctl_pc' = "s_cap_flag"
                    /\ UNCHANGED <<cap_running, buffer, pc, faults>>
       [] ctl_pc = "s_cap_flag" ->
            \* self.is_running = True
            /\ cap_running' = TRUE
            /\ ctl_pc' = "s_cap_buf"
            /\ UNCHANGED <<stream_open, buffer, pc, faults>>
       [] ctl_pc = "s_cap_buf" ->
            \* self.buffer = np.array([], dtype=np.float32)
            /\ buffer' = <<>>
            /\ ctl_pc' = "s_cap_thread"
            /\ UNCHANGED <<stream_open, cap_running, pc, faults>>
       [] ctl_pc = "s_cap_thread" ->
            \* threading.Thread(...).start(), or the handler of the
            \* exception it raised
            \/ /\ pc' = Spawn("cap")
               /\ ctl_pc' = "s_flag"
               /\ UNCHANGED <<stream_open, cap_running, buffer, faults>>
            \/ /\ faults < env.faults
               /\ faults' = faults + 1
               /\ cap_running' = FALSE
               /\ pc' = Unstarted("cap")
               /\ ctl_pc' = "s_rb_stt"
               /\ UNCHANGED <<stream_open, buffer>>
  /\ UNCHANGED <<pipe_running, stt_running, llm_running, sample_rate,
                 chunk_duration, chunk_size, frame_len,
                 frames_read, queue, ctxVars, hist, item, snap, last_op,
                 ctl_call, ctl_ret,
                 gen, spawned, phase>>

\* self.process_thread of the STT or the LLM processor, self.capture_thread
\* of the AudioCapture: the generation of the Thread object assigned last,
\* 0 while the attribute is None
ThreadOf(k) ==
  LET made == {g \in Gens : pc[<<k, g>>] # "none"}
  IN IF made = {} THEN 0 ELSE CHOOSE g \in made : \A h \in made : h <= g

\* thread.join(timeout=2.0) raises RuntimeError("cannot join thread before
\* it is started"): the Thread object is one whose start() raised
JoinRaises(k) == ThreadOf(k) # 0 /\ pc[<<k, ThreadOf(k)>>] = "unstarted"

\* "if self.process_thread: self.process_thread.join(timeout=2.0)" returns:
\* at once when there is no thread, when the thread has ended or, unless
\* env.join_waits says that the thread of component k ends within the
\* timeout, at any time
Joined(k) ==
  /\ ~JoinRaises(k)
  /\ (ThreadOf(k) # 0 /\ k \in env.join_waits)
       => ~Alive(<<k, ThreadOf(k)>>)

\* STTProcessor.stop() / LLMProcessor.stop(): the flag afterwards
ProcessorStopFlag(running) == FALSE

\* the caller is at position joining, inside the join of component k, and
\* the join raises.  A join changes nothing, and whether it returns or
\* raises does not change while the caller is inside it: its end is taken
\* together with the step of the caller that follows it.
AfterJoin(k, joining) == ctl_pc = joining /\ JoinRaises(k)

\* audio_capture.start() returned False: self.stt_processor.stop(), up to
\* its join
RollbackStt ==
  /\ faults' = faults
  /\ env' = env
  /\ ctl_pc = "s_rb_stt"
  /\ stt_running' = ProcessorStopFlag(stt_running)
  /\ ctl_pc' = IF stt_running THEN "s_rb_llm" ELSE "s_rb_llm_nj"
  /\ UNCHANGED <<pipe_running, cap_running, llm_running, capVars, queue,
                 ctxVars, hist, threadVars, ctl_call, ctl_ret, gen, spawned,
                 phase>>

\* the end of the join of stt_processor.stop(): RuntimeError takes start()
\* to its handler; otherwise self.llm_processor.stop(), up to its join
RollbackLlm ==
  /\ faults' = faults
  /\ env' = env
  /\ ctl_pc \in {"s_rb_llm", "s_rb_llm_nj"}
  /\ IF AfterJoin("stt", "s_rb_llm")
     THEN /\ ctl_pc' = "s_exc"
          /\ UNCHANGED <<llm_running, ctl_call, ctl_ret, phase>>
     ELSE /\ ctl_pc = "s_rb_llm" => Joined("stt")
          /\ llm_running' = ProcessorStopFlag(llm_running)
          /\ IF llm_running
             THEN /\ ctl_pc' = "s_rb_ret"
                  /\ UNCHANGED <<ctl_call, ctl_ret, phase>>
             ELSE Return("False", FALSE, "Idle")
  /\ UNCHANGED <<pipe_running, cap_running, stt_running, capVars, queue,
                 ctxVars, hist, threadVars, gen, spawned>>

\* the end of the join of LLMProcessor.stop(), called by stop() or by the
\* rollback of start(), and what follows it: "return False" of the
\* rollback and the end of stop() (and of the start() whose handler called
\* it) when it returns; when it raises RuntimeError, the handler of start()
\* in the rollback, and else the exception leaves stop() (and the start()
\* whose handler called it)
JoinLlm ==
  /\ faults' = faults
  /\ env' = env
  /\ ctl_pc \in {"s_rb_ret", "p_ret"}
  /\ IF JoinRaises("llm")
     THEN IF ctl_pc = "s_rb_ret"
          THEN /\ ctl_pc' = "s_exc"
               /\ UNCHANGED <<ctl_call, ctl_ret, phase>>
          ELSE Return("RuntimeError", FALSE, "Idle")
     ELSE /\ Joined("llm")
          /\ Return(IF ctl_call = "start" THEN "False" ELSE "None", FALSE,
                    "Idle")
  /\ UNCHANGED <<flagVars, capVars, queue, ctxVars, hist, threadVars, gen,
                 spawned>>

\* self.is_running = True
StartFlag ==
  /\ faults' = faults
  /\ env' = env
  /\ ctl_pc = "s_flag"
  /\ pipe_running' = TRUE
  /\ ctl_pc' = "s_fwd"
  /\ phase' = "Running"
  /\ UNCHANGED <<cap_running, stt_running, llm_running, capVars, queue,
                 ctxVars, hist, threadVars, ctl_call, ctl_ret, gen, spawned>>

\* the forwarder that start() spawns next
NextForwarder ==
  IF "a2s" \notin spawned THEN "a2s"
  ELSE IF "s2l" \notin spawned THEN "s2l" ELSE "l2d"

\* threading.Thread(target=self._..._loop, daemon=True).start(), three
\* times, then "return True"
StartForwarder ==
  /\ env' = env
  /\ ctl_pc = "s_fwd"
  /\ \/ /\ pc' = Spawn(NextForwarder)
        /\ spawned' = spawned \cup {NextForwarder}
        /\ faults' = faults
        /\ IF spawned' = Forwarders
           THEN Return("True", FALSE, "Running")
           ELSE UNCHANGED <<ctl_pc, ctl_call, ctl_ret, phase>>
     \/ /\ faults < env.faults
        /\ faults' = faults + 1
        /\ ctl_pc' = "s_exc"
        /\ UNCHANGED <<pc, spawned, ctl_call, ctl_ret, phase>>
  /\ UNCHANGED <<flagVars, capVars, queue, ctxVars, hist, item, snap,
                 last_op, gen>>

\* mutant of StopGuard: a stop() without the early return
StopGuardNever(running) == FALSE

\* TranslationPipeline.stop(): the test of "if not self.is_running: return"
StopGuard(running) == ~running

\* "except Exception: self.stop(); return False" of start()
StartExcept ==
  /\ faults' = faults
  /\ env' = env
  /\ ctl_pc = "s_exc"
  /\ IF StopGuard(pipe_running)
     THEN /\ Return("False", FALSE, "Idle")
          /\ UNCHANGED pipe_running
     ELSE /\ pipe_running' = FALSE
          /\ ctl_pc' = "p_cap"
          /\ phase' = "Stopping"
          /\ UNCHANGED <<ctl_call, ctl_ret>>
  /\ UNCHANGED <<cap_running, stt_running, llm_running, capVars, queue,
                 ctxVars, hist, threadVars, gen, spawned>>

\* TranslationPipeline.stop() called by the user
StopCall ==
  /\ faults' = faults
  /\ env' = env
  /\ ctl_pc = "idle"
  /\ IF StopGuard(pipe_running)
     THEN /\ env.noop
          /\ ctl_ret' = Ret("stop", "None", TRUE)
          /\ UNCHANGED <<pipe_running, ctl_pc, ctl_call, phase>>
     ELSE /\ frames_read >= env.stop_after
          /\ pipe_running' = FALSE
          /\ ctl_call' = "stop"
          /\ ctl_pc' = "p_cap"
          /\ phase' = "Stopping"
          /\ UNCHANGED ctl_ret
  /\ UNCHANGED <<cap_running, stt_running, llm_running, capVars, queue,
                 ctxVars, hist, threadVars, gen, spawned>>

\* AudioCapture.stop(): the guard and "self.is_running = False"
StopCapture ==
  /\ faults' = faults
  /\ env' = env
  /\ ctl_pc = "p_cap"
  /\ IF ~cap_running
     THEN ctl_pc' = "p_stt"
     ELSE ctl_pc' = "p_close"
  /\ cap_running' = FALSE
  /\ UNCHANGED <<pipe_running, stt_running, llm_running, capVars, queue,
                 ctxVars, hist, threadVars, ctl_call, ctl_ret, gen, spawned,
                 phase>>

\* AudioCapture.stop() after the join: stop_stream(), close(), stream = None
CloseStream ==
  /\ faults' = faults
  /\ env' = env
  /\ ctl_pc = "p_close"
  /\ Joined("cap")
  /\ stream_open' = FALSE
  /\ ctl_pc' = "p_stt"
  /\ UNCHANGED <<flagVars, sample_rate, chunk_duration, chunk_size,
                 frame_len, buffer, frames_read, queue,
                 ctxVars, hist, threadVars, ctl_call, ctl_ret, gen, spawned,
                 phase>>

\* self.stt_processor.stop(), up to its join
StopStt ==
  /\ faults' = faults
  /\ env' = env
  /\ ctl_pc = "p_stt"
  /\ stt_running' = ProcessorStopFlag(stt_running)
  /\ ctl_pc' = IF stt_running THEN "p_llm" ELSE "p_llm_nj"
  /\ UNCHANGED <<pipe_running, cap_running, llm_running, capVars, queue,
                 ctxVars, hist, threadVars, ctl_call, ctl_ret, gen, spawned,
                 phase>>

\* the end of the join of stt_processor.stop(): RuntimeError leaves stop()
\* (and the start() whose handler called it); otherwise
\* self.llm_processor.stop(), up to its join, and where the processor is
\* not running the end of stop()
StopLlm ==
  /\ faults' = faults
  /\ env' = env
  /\ ctl_pc \in {"p_llm", "p_llm_nj"}
  /\ IF AfterJoin("stt", "p_llm")
     THEN /\ Return("RuntimeError", FALSE, "Idle")
          /\ UNCHANGED llm_running
     ELSE /\ ctl_pc = "p_llm" => Joined("stt")
          /\ llm_running' = ProcessorStopFlag(llm_running)
          /\ IF llm_running
             THEN /\ ctl_pc' = "p_ret"
                  /\ UNCHANGED <<ctl_call, ctl_ret, phase>>
             ELSE Return(IF ctl_call = "start" THEN "False" ELSE "None",
                         FALSE, "Idle")
  /\ UNCHANGED <<pipe_running, cap_running, stt_running, capVars, queue,
                 ctxVars, hist, threadVars, gen, spawned>>

\* TranslationPipeline.set_callbacks(on_partial, on_translation), each
\* argument a callable or None: "self.on_partial_text = on_partial", and in
\* a step of its own "self.on_translation = on_translation" and the return
SetCallbacks ==
  /\ \/ /\ ctl_pc = "idle"
        /\ env.cb_sets > 0
        /\ \E partial \in BOOLEAN :
             env' = [env EXCEPT !.on_partial = partial, !.cb_sets = @ - 1]
        /\ ctl_pc' = "cb_translation"
        /\ ctl_call' = "set_callbacks"
        /\ UNCHANGED ctl_ret
     \/ /\ ctl_pc = "cb_translation"
        /\ \E translation \in BOOLEAN :
             env' = [env EXCEPT !.on_translation = translation]
        /\ ctl_pc' = "idle"
        /\ ctl_call' = "none"
        /\ ctl_ret' = Ret("set_callbacks", "None", FALSE)
  /\ UNCHANGED <<flagVars, capVars, queue, ctxVars, hist, threadVars, gen,
                 spawned, faults, phase>>

(***************************************************************************)
(* AudioCapture used without the pipeline, as test_audio does: its caller  *)
(* calls start(), get_audio_chunk() and stop() on the AudioCapture object. *)
(***************************************************************************)
\* the caller of the AudioCapture methods, as the author of a queue
\* operation
Caller == <<"caller", 0>>

\* AudioCapture.start(): the test of "if self.is_running: ... return False"
CaptureStartGuard(running) == running

\* mutant of OpenFailedFlag: a failed open that leaves is_running set
OpenFailedFlagSet(running) == TRUE

\* AudioCapture.start(), "except Exception: self.is_running = False"
OpenFailedFlag(running) == FALSE

\* AudioCapture.start(device_index): the guard
CaptureStartCall ==
  /\ ctl_pc = "idle"
  /\ IF CaptureStartGuard(cap_running)
     THEN /\ env.noop
          /\ ctl_ret' = Ret("cap_start", "False", TRUE)
          /\ UNCHANGED <<ctl_pc, ctl_call, gen>>
     ELSE /\ gen < env.starts
          /\ gen' = gen + 1
          /\ ctl_call' = "cap_start"
          /\ ctl_pc' = "c_dev"
          /\ UNCHANGED ctl_ret
  /\ UNCHANGED <<flagVars, capVars, queue, ctxVars, hist, threadVars,
                 spawned, faults, env, phase>>

\* AudioCapture.start(): set_device(device_index), self.audio.open(...),
\* "self.is_running = True" and the assignment of the empty buffer: one
\* step while no older capture thread is alive, else one by one
CaptureOpen ==
  /\ ctl_pc \in {"c_dev", "c_flag", "c_buf"}
  /\ CASE ctl_pc = "c_dev" ->
            \/ \* set_device returned False: "return False"
               /\ env.device_fails
               /\ Return("False", FALSE, phase)
               /\ UNCHANGED <<cap_running, stream_open, buffer>>
            \/ \* audio.open raised: the handler clears is_running
               /\ env.device_fails
               /\ cap_running' = OpenFailedFlag(cap_running)
               /\ Return("False", FALSE, phase)
               /\ UNCHANGED <<stream_open, buffer>>
            \/ \* the stream is open: is_running = True, the buffer is
               \* emptied
               /\ ~CaptureRacing
               /\ stream_open' = TRUE
               /\ cap_running' = TRUE
               /\ buffer' = <<>>
               /\ ctl_pc' = "c_thread"
               /\ UNCHANGED <<ctl_call, ctl_ret, phase>>
            \/ \* self.stream = self.audio.open(...)
               /\ CaptureRacing
               /\ stream_open' = TRUE
               /\ ctl_pc' = "c_flag"
               /\ UNCHANGED <<cap_running, buffer, ctl_call, ctl_ret,
                              phase>>
       [] ctl_pc = "c_flag" ->
            \* self.is_running = True
            /\ cap_running' = TRUE
            /\ ctl_pc' = "c_buf"
            /\ UNCHANGED <<stream_open, buffer, ctl_call, ctl_ret, phase>>
       [] ctl_pc = "c_buf" ->
            \* self.buffer = np.array([], dtype=np.float32)
            /\ buffer' = <<>>
            /\ ctl_pc' = "c_thread"
            /\ UNCHANGED <<stream_open, cap_running, ctl_call, ctl_ret,
                           phase>>
  /\ UNCHANGED <<pipe_running, stt_running, llm_running, sample_rate,
                 chunk_duration, chunk_size,
                 frame_len, frames_read, queue, ctxVars, hist, threadVars,
                 gen, spawned, faults, env>>

\* AudioCapture.start(): threading.Thread(target=self._capture_loop).start()
\* and "return True", or the handler of the exception it raised
CaptureSpawn ==
  /\ ctl_pc = "c_thread"
  /\ \/ /\ pc' = Spawn("cap")
        /\ Return("True", FALSE, phase)
        /\ UNCHANGED <<cap_running, faults>>
     \/ /\ faults < env.faults
        /\ faults' = faults + 1
        /\ cap_running' = OpenFailedFlag(cap_running)
        /\ Return("False", FALSE, phase)
        /\ pc' = Unstarted("cap")
  /\ UNCHANGED <<pipe_running, stt_running, llm_running, capVars, queue,
                 ctxVars, hist, item, snap, last_op, gen, spawned, env>>

\* AudioCapture.get_audio_chunk(timeout) called by the caller of start()
CaptureGet ==
  /\ ctl_pc = "idle"
  /\ LET q == "cap_audio"
     IN IF queue[q] = <<>>
        THEN /\ ctl_ret' = Ret("cap_get", "None", FALSE)
             /\ UNCHANGED <<queue, snap, last_op>>
        ELSE /\ ctl_ret' = Ret("cap_get", "chunk", FALSE)
             /\ queue' = [queue EXCEPT ![q] = GetRest(@)]
             /\ snap' = Disturb(Caller, q)
             /\ last_op' = Op(Caller, "get")
  /\ UNCHANGED <<flagVars, capVars, ctxVars, hist, pc, item, ctl_pc,
                 ctl_call, gen, spawned, faults, env, phase>>

\* AudioCapture.clear_queue(): one pass of "while not
\* self.audio_queue.empty(): self.audio_queue.get_nowait()", or the return
\* when the queue is found empty
CaptureClearQueue ==
  /\ ctl_pc \in {"idle", "c_clear"}
  /\ LET q == "cap_audio"
     IN IF queue[q] = <<>>
        THEN /\ ctl_ret' = Ret("cap_clear", "None", FALSE)
             /\ ctl_pc' = "idle"
             /\ ctl_call' = "none"
             /\ UNCHANGED <<queue, snap, last_op>>
        ELSE /\ queue' = [queue EXCEPT ![q] = GetRest(@)]
             /\ snap' = Disturb(Caller, q)
             /\ last_op' = Op(Caller, "get")
             /\ ctl_pc' = "c_clear"
             /\ ctl_call' = "cap_clear"
             /\ UNCHANGED ctl_ret
  /\ UNCHANGED <<flagVars, capVars, ctxVars, hist, pc, item, gen, spawned,
                 faults, env, phase>>

\* AudioCapture.stop(): the guard and "self.is_running = False"
CaptureStopCall ==
  /\ ctl_pc = "idle"
  /\ IF ~cap_running
     THEN /\ env.noop
          /\ ctl_ret' = Ret("cap_stop", "None", TRUE)
          /\ UNCHANGED <<cap_running, ctl_pc, ctl_call>>
     ELSE /\ cap_running' = FALSE
          /\ ctl_call' = "cap_stop"
          /\ ctl_pc' = "c_close"
          /\ UNCHANGED ctl_ret
  /\ UNCHANGED <<pipe_running, stt_running, llm_running, capVars, queue,
                 ctxVars, hist, threadVars, gen, spawned, faults, env,
                 phase>>

\* AudioCapture.stop() after the join: stop_stream(), close(),
\* stream = None, and the return
CaptureClose ==
  /\ ctl_pc = "c_close"
  /\ Joined("cap")
  /\ stream_open' = FALSE
  /\ Return("None", FALSE, phase)
  /\ UNCHANGED <<flagVars, sample_rate, chunk_duration, chunk_size,
                 frame_len, buffer, frames_read, queue,
                 ctxVars, hist, threadVars, gen, spawned, faults, env>>

(***************************************************************************)
(* The pipeline as PipelineBuilder.build_from_config builds it.            *)
(***************************************************************************)
\* ContextManager.__init__ (SimpleContextManager inherits it), and set_llm
ContextBuilt(wsize, interval, maxlen, llm, simple) ==
  /\ window_size = wsize
  /\ update_interval = interval
  /\ max_context_length = maxlen
  /\ history = <<>>
  /\ context_summary = <<>>
  /\ sentence_count = 0
  /\ ctx_llm = llm
  /\ ctx_simple = simple

\* the objects of the pipeline other than the ContextManager
PipelineBuilt(rate, duration, flen) ==
  /\ pipe_running = FALSE
  /\ cap_running = FALSE
  /\ stt_running = FALSE
  /\ llm_running = FALSE
  /\ stream_open = FALSE
  /\ sample_rate = rate
  /\ chunk_duration = duration
  /\ chunk_size = ChunkSizeOf(rate, duration)
  /\ frame_len = flen
  /\ buffer = <<>>
  /\ queue = [q \in QNames |-> <<>>]
  /\ pc = [t \in Threads |-> "none"]
  /\ item = [t \in Threads |-> NoItem]
  /\ snap = [t \in Threads |-> NoSnap]
  /\ last_op = NoOp
  /\ ctl_pc = "idle"
  /\ ctl_call = "none"
  /\ ctl_ret = Ret("none", "None", FALSE)
  /\ gen = 0
  /\ spawned = {}
  /\ frames_read = 0
  /\ faults = 0
  /\ hist = [emitted |-> <<>>, recog |-> <<>>, produced |-> <<>>,
             llm_in |-> <<>>, shown |-> <<>>, accepted |-> <<>>,
             regen |-> 0, gen |-> "none",
             cleared |-> FALSE, partial |-> <<>>,
             delivered |-> <<>>, offered |-> {}, read_failed |-> <<>>]
  /\ phase = "Idle"

\* the pipeline with the ContextManager that build_from_config constructs:
\* window_size and update_interval from the configuration, the default
\* max_context_length, and no set_llm call
BuiltWith(rate, duration, flen) ==
  /\ PipelineBuilt(rate, duration, flen)
  /\ ContextBuilt(WindowSize, UpdateInterval, MaxContextLength, FALSE, FALSE)

\* the scaled-down configuration: chunks of ChunkSize samples (ChunkSize
\* samples per second, chunks of one second), frames of FrameLen samples
Built == BuiltWith(ChunkSize, DurationUnit, FrameLen)

ThreadStep(t) ==
  \/ LoopExit(t)
  \/ CapRead(t)
  \/ ProducerPut(t)
  \/ ProducerEvict(t)
  \/ ProducerReput(t)
  \/ A2sGet(t)
  \/ S2lGet(t)
  \/ L2dGet(t)
  \/ ForwarderPut(t)
  \/ SttGet(t)
  \/ SttTranscribe(t)
  \/ LlmGet(t)
  \/ LlmTranslate(t)
  \/ LlmRecord(t)

\* the steps of a start() in which nothing fails, and of stop()
RunCtlStep ==
  \/ StartCall
  \/ StartStt
  \/ StartLlm
  \/ StartCapture
  \/ StartFlag
  \/ StartForwarder
  \/ StopCall
  \/ StopCapture
  \/ CloseStream
  \/ StopStt
  \/ StopLlm
  \/ JoinLlm

\* those and the steps of a start() that fails: the rollback after
\* audio_capture.start() returned False, and the exception handler
CtlStep ==
  \/ RunCtlStep
  \/ RollbackStt
  \/ RollbackLlm
  \/ StartExcept

Next == CtlStep \/ \E t \in Threads : ThreadStep(t)

\* the steps of a pipeline whose device opens and whose Thread.start()
\* calls succeed
NextRun == RunCtlStep \/ \E t \in Threads : ThreadStep(t)

\* Capacity-1 queues everywhere, one start() that passes the guard,
\* MaxFrames frames.
Init ==
  /\ Built
  /\ env = [maxsize |-> Maxsizes, starts |-> 1, frames |-> MaxFrames,
            early |-> MaxFrames, stop_after |-> 0, join_waits |-> {},
            settled |-> {},
            short_frames |-> FALSE,
            faults |-> MaxFaults, device_fails |-> TRUE, noop |-> TRUE,
            trace |-> TRUE, recog |-> RecogOutputs,
            translate |-> TranslateOutputs, silent |-> {1},
            on_partial |-> FALSE, on_translation |-> TRUE,
            cb_fails |-> FALSE, read_faults |-> 0, cb_sets |-> 0]

Spec == Init /\ [][Next]_vars

\* One more slot in AudioCapture.audio_queue and one more frame than in
\* Spec, so that an overflowing queue holds more than one item; the device
\* opens, no Thread.start() raises and the model always translates.
InitOrder ==
  /\ Built
  /\ env = [maxsize |-> [Maxsizes EXCEPT !["cap_audio"] = @ + 1],
            starts |-> 1, frames |-> MaxFrames + 1, early |-> MaxFrames + 1,
            stop_after |-> 0, join_waits |-> {}, settled |-> {},
            short_frames |-> FALSE,
            faults |-> 0, device_fails |-> FALSE, noop |-> FALSE,
            trace |-> TRUE, recog |-> RecogOutputs,
            translate |-> TranslateOutputs \ {<<>>}, silent |-> {},
            on_partial |-> FALSE, on_translation |-> TRUE,
            cb_fails |-> FALSE, read_faults |-> 0, cb_sets |-> 0]

SpecOrder == InitOrder /\ [][NextRun]_vars

\* A start() in which a Thread.start() raises, followed by another start():
\* MaxStarts start() calls pass the guard and up to MaxFaults
\* Thread.start() calls raise; the joins of stop() return because the
\* thread ended, and the forwarders have ended when start() is called
\* again.  The device opens.
InitRetry ==
  /\ Built
  /\ env = [maxsize |-> Maxsizes, starts |-> MaxStarts, frames |-> MaxFrames,
            early |-> 1, stop_after |-> 0,
            join_waits |-> {"cap", "stt", "llm"},
            settled |-> {"a2s", "s2l", "l2d"},
            short_frames |-> FALSE,
            faults |-> MaxFaults, device_fails |-> FALSE, noop |-> FALSE,
            trace |-> FALSE, recog |-> {r \in RecogOutputs : r.text # <<>>},
            translate |-> TranslateOutputs \ {<<>>}, silent |-> {},
            on_partial |-> FALSE, on_translation |-> TRUE,
            cb_fails |-> FALSE, read_faults |-> 0, cb_sets |-> 0]

SpecRetry == InitRetry /\ [][Next]_vars

\* start()/stop() cycles: MaxStarts start() calls that pass the guard, each
\* stop() called once the capture has read LifeFrames frames, one more frame
\* after the last start; the joins of the capture thread and of the two
\* workers return because the thread ended, the forwarders are never
\* joined: the audio forwarder is free to outlive the stop(), the other
\* two have ended when start() is called again.  The result queue of the
\* LLM stage has room for the results of both frames.  The device opens and
\* no Thread.start() raises.
InitLife ==
  /\ Built
  /\ env = [maxsize |-> [Maxsizes EXCEPT !["llm_result"] = @ + 1],
            starts |-> MaxStarts,
            frames |-> LifeFrames + 1, early |-> LifeFrames,
            stop_after |-> LifeFrames,
            join_waits |-> {"cap", "stt", "llm"},
            settled |-> {"s2l", "l2d"},
            short_frames |-> FALSE,
            faults |-> 0, device_fails |-> FALSE, noop |-> FALSE,
            trace |-> FALSE, recog |-> {r \in RecogOutputs : r.text # <<>>},
            translate |-> TranslateOutputs \ {<<>>}, silent |-> {},
            on_partial |-> FALSE, on_translation |-> TRUE,
            cb_fails |-> FALSE, read_faults |-> 0, cb_sets |-> 0]

SpecLife == InitLife /\ [][NextRun]_vars

\* the same cycles with the join of the LLM worker free (a translation can
\* outlast the 2.0 s of the timeout) and the three forwarders ended when
\* start() is called again
InitWorkers ==
  /\ Built
  /\ env = [maxsize |-> [Maxsizes EXCEPT !["llm_result"] = @ + 1],
            starts |-> MaxStarts,
            frames |-> LifeFrames + 1, early |-> LifeFrames,
            stop_after |-> LifeFrames, join_waits |-> {"cap", "stt"},
            settled |-> {"a2s", "s2l", "l2d"},
            short_frames |-> FALSE,
            faults |-> 0, device_fails |-> FALSE, noop |-> FALSE,
            trace |-> FALSE, recog |-> {r \in RecogOutputs : r.text # <<>>},
            translate |-> TranslateOutputs \ {<<>>}, silent |-> {},
            on_partial |-> FALSE, on_translation |-> TRUE,
            cb_fails |-> FALSE, read_faults |-> 0, cb_sets |-> 0]

\* the steps of the pipeline, with those of LLM workers that run side by
\* side
NextWorkers ==
  \/ NextRun
  \/ \E t \in Threads : LlmContext(t) \/ LlmAddSentence(t) \/ LlmSnapshot(t)

SpecWorkers == InitWorkers /\ [][NextWorkers]_vars

\* the steps of a thread inside a send: put_nowait, the handler of
\* queue.Full, put_audio, put_text
SendStep(t) ==
  ProducerPut(t) \/ ProducerEvict(t) \/ ProducerReput(t) \/ ForwarderPut(t)

\* As Spec with a device that opens and Thread.start() calls that
\* succeed.
InitSend ==
  /\ Built
  /\ env = [maxsize |-> Maxsizes, starts |-> 1, frames |-> MaxFrames,
            early |-> MaxFrames, stop_after |-> 0, join_waits |-> {},
            settled |-> {},
            short_frames |-> FALSE,
            faults |-> 0, device_fails |-> FALSE, noop |-> FALSE,
            trace |-> TRUE, recog |-> RecogOutputs,
            translate |-> TranslateOutputs, silent |-> {1},
            on_partial |-> FALSE, on_translation |-> TRUE,
            cb_fails |-> FALSE, read_faults |-> 0, cb_sets |-> 0]

\* That pipeline, where a thread that is inside a send is scheduled again.
\* No thread is required to receive, and the caller of start()/stop() is
\* not required to do anything.
SpecSend ==
  InitSend /\ [][NextRun]_vars /\ \A t \in Threads : WF_vars(SendStep(t))

(***************************************************************************)
(* A ContextManager (or SimpleContextManager) used on its own: its caller  *)
(* calls set_llm, add_sentence, get_translation_context, clear, and        *)
(* export_context followed by import_context.                              *)
(***************************************************************************)
\* originals and translations the caller passes to add_sentence
Originals == { <<"\t">>, <<"a">>, <<" ", "b", "\n">> }
Translations == { <<"z", " ">> }

\* what the objects other than the ContextManager do meanwhile: nothing
ContextOnly ==
  UNCHANGED <<flagVars, capVars, queue, threadVars, ctl_pc, ctl_call, gen,
              spawned, faults, env, phase, window_size, update_interval,
              max_context_length, ctx_llm, ctx_simple>>

\* add_sentence(original, translation)
CtxAdd ==
  /\ Len(hist.accepted) < MaxAdds
  /\ \E original \in Originals, translation \in Translations,
        genout \in (IF ctx_llm THEN SummaryOutputs ELSE {<<>>}) :
       /\ AddSentence(original, translation, genout)
       /\ hist' = NoteAdd(original, translation, genout)
       /\ ctl_ret' = Ret("add_sentence", <<>>, Strip(original) = <<>>)
  /\ ContextOnly

\* get_translation_context()
CtxGetContext ==
  /\ ctl_ret' = Ret("get_translation_context",
                    GetTranslationContext(history, context_summary), FALSE)
  /\ UNCHANGED <<history, context_summary, sentence_count, hist>>
  /\ ContextOnly

\* clear()
CtxClear ==
  /\ history' = <<>>
  /\ context_summary' = <<>>
  /\ sentence_count' = 0
  /\ hist' = [hist EXCEPT !.accepted = <<>>, !.regen = 0, !.gen = "none",
                          !.cleared = TRUE]
  /\ ctl_ret' = Ret("clear", <<>>, FALSE)
  /\ ContextOnly

\* import_context(export_context())
CtxImport ==
  /\ LET data == ImportContext(ExportContext)
     IN /\ history' = data.history
        /\ context_summary' = data.summary
        /\ sentence_count' = data.sentence_count
  /\ hist' = [hist EXCEPT !.gen = "none"]
  /\ ctl_ret' = Ret("import_context", <<>>, FALSE)
  /\ ContextOnly

\* set_llm(llm), llm a model or None
CtxSetLlm ==
  /\ \E llm \in BOOLEAN : ctx_llm' = llm
  /\ ctl_ret' = Ret("set_llm", <<>>, FALSE)
  /\ UNCHANGED <<flagVars, capVars, queue, threadVars, ctl_pc, ctl_call, gen,
                 spawned, faults, env, phase, window_size, update_interval,
                 max_context_length, history, context_summary,
                 sentence_count, ctx_simple, hist>>

NextContext == CtxAdd \/ CtxGetContext \/ CtxClear \/ CtxImport \/ CtxSetLlm

\* A manager with a window of up to MaxWindow entries and an update
\* interval of up to MaxInterval sentences: the ContextManager as the
\* pipeline builds it (no LLM), a ContextManager after set_llm, or a
\* SimpleContextManager; at most MaxAdds sentences are accepted between
\* two clear() calls.
InitContext ==
  /\ PipelineBuilt(ChunkSize, DurationUnit, FrameLen)
  /\ \E wsize \in 1..MaxWindow, interval \in 1..MaxInterval,
        kind \in {"built", "llm", "simple"} :
       ContextBuilt(wsize, interval, MaxContextLength, kind = "llm",
                    kind = "simple")
  /\ env = [maxsize |-> Maxsizes, starts |-> 1, frames |-> MaxFrames,
            early |-> MaxFrames, stop_after |-> 0, join_waits |-> {},
            settled |-> {},
            short_frames |-> FALSE,
            faults |-> MaxFaults, device_fails |-> TRUE, noop |-> TRUE,
            trace |-> TRUE, recog |-> RecogOutputs,
            translate |-> TranslateOutputs, silent |-> {},
            on_partial |-> FALSE, on_translation |-> TRUE,
            cb_fails |-> FALSE, read_faults |-> 0, cb_sets |-> 0]

\* As Spec, with an on_partial_text callback set and a recognizer that
\* returns the word lists of PartialOutputs.
InitPartial ==
  /\ Built
  /\ env = [maxsize |-> Maxsizes, starts |-> 1, frames |-> MaxFrames,
            early |-> MaxFrames, stop_after |-> 0, join_waits |-> {},
            settled |-> {},
            short_frames |-> FALSE,
            faults |-> MaxFaults, device_fails |-> TRUE, noop |-> TRUE,
            trace |-> TRUE, recog |-> PartialOutputs,
            translate |-> TranslateOutputs, silent |-> {},
            on_partial |-> TRUE, on_translation |-> TRUE,
            cb_fails |-> FALSE, read_faults |-> 0, cb_sets |-> 0]

SpecPartial == InitPartial /\ [][Next]_vars

\* As Spec, with both callbacks set, either of which may raise.
InitFailing ==
  /\ Built
  /\ env = [maxsize |-> Maxsizes, starts |-> 1, frames |-> MaxFrames,
            early |-> MaxFrames, stop_after |-> 0, join_waits |-> {},
            settled |-> {},
            short_frames |-> FALSE,
            faults |-> MaxFaults, device_fails |-> TRUE, noop |-> TRUE,
            trace |-> TRUE, recog |-> RecogOutputs,
            translate |-> TranslateOutputs, silent |-> {},
            on_partial |-> TRUE, on_translation |-> TRUE,
            cb_fails |-> TRUE, read_faults |-> 0, cb_sets |-> 0]

\* the steps of the pipeline and the sleep of an except clause
NextFailing == Next \/ \E t \in Threads : ExceptSleep(t)

SpecFailing == InitFailing /\ [][NextFailing]_vars

\* the steps of the pipeline while its caller calls set_callbacks
NextCallbacks ==
  \/ NextFailing
  \/ SetCallbacks
  \/ \E t \in Threads : S2lWord(t) \/ L2dCall(t)

\* As Spec, with a recognizer that returns the words of CallbackOutputs
\* and a model that translates every text, where the caller
\* has set both callbacks before start() and calls set_callbacks up to
\* MaxCallbackSets times more, at any time, each argument a callable or
\* None.
InitCallbacks ==
  /\ Built
  /\ env = [maxsize |-> Maxsizes, starts |-> 1, frames |-> MaxFrames,
            early |-> MaxFrames, stop_after |-> 0, join_waits |-> {},
            settled |-> {},
            short_frames |-> FALSE,
            faults |-> MaxFaults, device_fails |-> TRUE, noop |-> FALSE,
            trace |-> FALSE,
            recog |-> CallbackOutputs,
            translate |-> TranslateOutputs \ {<<>>}, silent |-> {},
            on_partial |-> TRUE, on_translation |-> TRUE,
            cb_fails |-> FALSE, read_faults |-> 0,
            cb_sets |-> MaxCallbackSets]

SpecCallbacks == InitCallbacks /\ [][NextCallbacks]_vars

SpecContext == InitContext /\ [][NextContext]_vars

\* The managers of InitContext with a max_context_length of up to
\* MaxSummaryLen characters, which generated and joined summaries exceed.
InitSummary ==
  /\ PipelineBuilt(ChunkSize, DurationUnit, FrameLen)
  /\ \E wsize \in 1..MaxWindow, interval \in 1..MaxInterval,
        maxlen \in 1..MaxSummaryLen, kind \in {"built", "llm", "simple"} :
       ContextBuilt(wsize, interval, maxlen, kind = "llm", kind = "simple")
  /\ env = [maxsize |-> Maxsizes, starts |-> 1, frames |-> MaxFrames,
            early |-> MaxFrames, stop_after |-> 0, join_waits |-> {},
            settled |-> {},
            short_frames |-> FALSE,
            faults |-> MaxFaults, device_fails |-> TRUE, noop |-> TRUE,
            trace |-> TRUE, recog |-> RecogOutputs,
            translate |-> TranslateOutputs, silent |-> {},
            on_partial |-> FALSE, on_translation |-> TRUE,
            cb_fails |-> FALSE, read_faults |-> 0, cb_sets |-> 0]

SpecSummary == InitSummary /\ [][NextContext]_vars

\* the steps of a capture thread
CaptureThreadStep(t) ==
  \/ LoopExit(t)
  \/ CapRead(t)
  \/ ProducerPut(t)
  \/ ProducerEvict(t)
  \/ ProducerReput(t)

NextCapture ==
  \/ CaptureStartCall
  \/ CaptureOpen
  \/ CaptureSpawn
  \/ CaptureGet
  \/ CaptureClearQueue
  \/ CaptureStopCall
  \/ CaptureClose
  \/ \E g \in Gens : CaptureThreadStep(<<"cap", g>>)

\* An AudioCapture object on its own: MaxStarts start() calls that pass the
\* guard, MaxFrames frames, any join may time out.
InitCapture ==
  /\ Built
  /\ env = [maxsize |-> Maxsizes, starts |-> MaxStarts,
            frames |-> MaxFrames, early |-> MaxFrames, stop_after |-> 0,
            join_waits |-> {}, settled |-> {},
            short_frames |-> FALSE,
            faults |-> MaxFaults,
            device_fails |-> TRUE, noop |-> TRUE, trace |-> TRUE,
            recog |-> RecogOutputs, translate |-> TranslateOutputs,
            silent |-> {},
            on_partial |-> FALSE, on_translation |-> TRUE,
            cb_fails |-> FALSE, read_faults |-> 0, cb_sets |-> 0]

SpecCapture == InitCapture /\ [][NextCapture]_vars

\* An AudioCapture object on its own in every configuration of a sample
\* rate up to MaxSampleRate, a chunk duration up to MaxDuration units and
\* frames of up to MaxFrameLen samples that gives chunks of at least one
\* sample; one start() passes the guard and the device delivers
\* ChunkFrames frames.
InitChunk ==
  /\ \E rate \in 1..MaxSampleRate, duration \in 1..MaxDuration,
        flen \in 1..MaxFrameLen :
       /\ ChunkSizeOf(rate, duration) >= 1
       /\ BuiltWith(rate, duration, flen)
  /\ env = [maxsize |-> Maxsizes, starts |-> 1,
            frames |-> ChunkFrames, early |-> ChunkFrames, stop_after |-> 0,
            join_waits |-> {}, settled |-> {},
            short_frames |-> FALSE,
            faults |-> MaxFaults,
            device_fails |-> TRUE, noop |-> TRUE, trace |-> TRUE,
            recog |-> RecogOutputs, translate |-> TranslateOutputs,
            silent |-> {},
            on_partial |-> FALSE, on_translation |-> TRUE,
            cb_fails |-> FALSE, read_faults |-> 0, cb_sets |-> 0]

SpecChunk == InitChunk /\ [][NextCapture]_vars

\* An AudioCapture object on its own in the configurations of a sample rate
\* up to MaxSampleRate and a chunk duration up to MaxDuration units, where
\* the processed frames have from one to MaxFrameLen samples; MaxStarts
\* start() calls pass the guard, the join of a stop() is free to time out,
\* and the device delivers MaxFrames frames, at most one of them before
\* the last start.
InitFrames ==
  /\ \E rate \in 1..MaxSampleRate, duration \in 1..MaxDuration :
       BuiltWith(rate, duration, MaxFrameLen)
  /\ env = [maxsize |-> Maxsizes, starts |-> MaxStarts,
            frames |-> MaxFrames, early |-> 1, stop_after |-> 0,
            join_waits |-> {}, settled |-> {}, short_frames |-> TRUE,
            faults |-> 0,
            device_fails |-> FALSE, noop |-> FALSE, trace |-> FALSE,
            recog |-> RecogOutputs, translate |-> TranslateOutputs,
            silent |-> {},
            on_partial |-> FALSE, on_translation |-> TRUE,
            cb_fails |-> FALSE, read_faults |-> 0, cb_sets |-> 0]

SpecFrames == InitFrames /\ [][NextCapture]_vars

\* As SpecChunk, where up to MaxReadFaults iterations of the capture loop
\* raise.
InitRead ==
  /\ \E rate \in 1..MaxSampleRate, duration \in 1..MaxDuration,
        flen \in 1..MaxFrameLen :
       /\ ChunkSizeOf(rate, duration) >= 1
       /\ BuiltWith(rate, duration, flen)
  /\ env = [maxsize |-> Maxsizes, starts |-> 1,
            frames |-> ChunkFrames, early |-> ChunkFrames, stop_after |-> 0,
            join_waits |-> {}, settled |-> {},
            short_frames |-> FALSE,
            faults |-> MaxFaults,
            device_fails |-> TRUE, noop |-> TRUE, trace |-> TRUE,
            recog |-> RecogOutputs, translate |-> TranslateOutputs,
            silent |-> {},
            on_partial |-> FALSE, on_translation |-> TRUE,
            cb_fails |-> FALSE, read_faults |-> MaxReadFaults,
            cb_sets |-> 0]

\* the steps of an AudioCapture object and the sleep of the except clause
\* of its loop
NextRead == NextCapture \/ \E g \in Gens : ExceptSleep(<<"cap", g>>)

SpecRead == InitRead /\ [][NextRead]_vars

\* the threads of the first start() that passes the guard
FirstThreads == {t \in Threads : t[2] = 1}

\* As Spec (one start() passes the guard), where every thread is scheduled
\* again: every queue.get(timeout), every stream.read and every call of the
\* recognizer or of the model returns.  The caller of start()/stop() is not
\* required to do anything.
SpecFair ==
  Init /\ [][Next]_vars /\ \A t \in FirstThreads : WF_vars(ThreadStep(t))

(***************************************************************************)
(* Properties.                                                             *)
(***************************************************************************)
Sending(t) == pc[t] \in {"put", "evict", "reput"}
Contains(s, x) == \E i \in 1..Len(s) : s[i] = x

\* C1: in every reachable state the occupancy of each of the five queues is
\* between 0 and the capacity of the queue.
C1_OccupancyWithinCapacity ==
  \A q \in QNames : Len(queue[q]) >= 0 /\ Len(queue[q]) <= QMax(q)

\* C1 witness: the put_nowait of the capture loop has raised queue.Full on
\* a queue that is at its capacity
C1_Witness ==
  /\ last_op = Op(<<"cap", 1>>, "full")
  /\ Len(queue["cap_audio"]) = QMax("cap_audio")

\* C2: when a producer loop (capture, STT worker, LLM worker) sends onto its
\* full output queue and no other thread operates on the queue before the
\* send is complete, the contents afterwards are the contents before minus
\* the oldest element, plus the new element at the tail, the others in
\* their order.
C2_OverflowSendDropsOldest ==
  [][\A t \in Threads :
       (/\ t[1] \in Producers
        /\ pc[t] = "reput"
        /\ pc'[t] # "reput"
        /\ snap[t] # NoSnap)
       => queue'[OutQ(t[1])] = Append(Tail(snap[t]), item[t])]_vars

\* C2 witness: the capture loop has completed an undisturbed overflow send
\* on a queue that holds more than one chunk
C2_Witness ==
  /\ last_op = Op(<<"cap", 1>>, "replaced")
  /\ Len(queue["cap_audio"]) > 1

\* C3: put_audio on a full audio_queue evicts the oldest chunk and enqueues
\* the new chunk at the tail, so that the last element of the queue is the
\* submitted chunk.
C3_PutAudioDropsOldest ==
  [][\A t \in Threads :
       (/\ t[1] = "a2s"
        /\ pc[t] = "put"
        /\ pc'[t] # "put"
        /\ QFull(queue["stt_audio"], QMax("stt_audio")))
       => queue'["stt_audio"] = Append(Tail(queue["stt_audio"]), item[t])]_vars

\* C4: put_text on a full text_queue evicts the oldest text and enqueues
\* the new text at the tail.
C4_PutTextDropsOldest ==
  [][\A t \in Threads :
       (/\ t[1] = "s2l"
        /\ pc[t] = "put"
        /\ pc'[t] # "put"
        /\ QFull(queue["llm_text"], QMax("llm_text")))
       => queue'["llm_text"] = Append(Tail(queue["llm_text"]), item[t])]_vars

\* C5: for every interleaving of a producer's overflow send with the
\* receives of the consumer, the new item is in the queue when the send is
\* complete, and the send removes an item only from a full queue.
C5_OverflowSendAtomic ==
  [][\A t \in Threads :
       t[1] \in Producers =>
         /\ (Sending(t) /\ ~Sending(t)')
              => Contains(queue'[OutQ(t[1])], item[t])
         /\ (pc[t] = "evict" /\ pc'[t] = "reput")
              => QFull(queue[OutQ(t[1])], QMax(OutQ(t[1])))]_vars

\* C6: no producer waits on its consumer.  A thread that is inside a send
\* (the send of the capture loop or of a worker, put_audio, put_text) can
\* always take its next step whatever the occupancy of the queue, and when
\* it is scheduled it leaves the send, although no thread is required ever
\* to receive.
C6_ProducerNeverWaits ==
  /\ [](\A t \in Threads : Sending(t) => ENABLED SendStep(t))
  /\ \A t \in Threads : Sending(t) ~> ~Sending(t)

\* C6 witness: while the STT input queue is full and the audio forwarder
\* holds a chunk it has not delivered yet, the capture loop has completed a
\* send onto its full queue and is reading again
C6_Witness ==
  /\ last_op.by = <<"cap", 1>>
  /\ last_op.op \in {"replaced", "reput"}
  /\ pc[<<"cap", 1>>] \in {"read", "done"}
  /\ Len(queue["cap_audio"]) = QMax("cap_audio")
  /\ frames_read = env.frames

\* C7: when start() returns False after having passed its guard, no stage
\* is left running: the flags of the STT processor, the LLM processor and
\* the audio capture are False, no forwarder was spawned and is_running is
\* False.
C7_FailedStartLeavesNothingRunning ==
  (ctl_pc = "idle" /\ ctl_ret = Ret("start", "False", FALSE))
    => /\ ~stt_running
       /\ ~llm_running
       /\ ~cap_running
       /\ ~pipe_running
       /\ spawned = {}

\* C8: start() called while is_running is True returns False and changes
\* nothing: no flag, no queue, no thread, no forwarder.
C8_StartWhileRunningRefused ==
  [][(StartCall /\ pipe_running)
       => /\ ctl_ret' = Ret("start", "False", TRUE)
          /\ UNCHANGED <<flagVars, capVars, queue, ctxVars, threadVars,
                         ctl_pc, ctl_call, gen, spawned, phase>>]_vars

\* C8 witness: a start() has been refused while the pipeline runs with its
\* three forwarders
C8_Witness ==
  /\ ctl_ret = Ret("start", "False", TRUE)
  /\ pipe_running
  /\ spawned = Forwarders
  /\ ctl_pc = "idle"

\* C9: stop() called while is_running is False returns None and changes
\* nothing: it stops neither the audio capture nor a processor.
C9_StopWhileIdleNoOp ==
  [][(StopCall /\ ~pipe_running)
       => /\ ctl_ret' = Ret("stop", "None", TRUE)
          /\ UNCHANGED <<flagVars, capVars, queue, ctxVars, threadVars,
                         ctl_pc, ctl_call, gen, spawned, phase>>]_vars

\* C9 witness: stop() has returned at its guard after an earlier stop()
\* had stopped the running pipeline
C9_Witness ==
  /\ ctl_ret = Ret("stop", "None", TRUE)
  /\ ~pipe_running
  /\ gen = 1
  /\ spawned = Forwarders
  /\ ctl_pc = "idle"

\* the transitions of the lifecycle
LifecycleEdges ==
  { <<"Idle", "Starting">>, <<"Starting", "Running">>,
    <<"Running", "Stopping">>, <<"Stopping", "Idle">>,
    <<"Starting", "Idle">> }

\* C10: the lifecycle changes only along Idle -> Starting -> Running ->
\* Stopping -> Idle and Starting -> Idle; a forwarder of the current start
\* exists only once the start has got through; is_running is True only in
\* Running; between two calls the pipeline is Running (every stage
\* running) or Idle (no stage running).
C10_Lifecycle ==
  [][/\ phase' # phase => <<phase, phase'>> \in LifecycleEdges
     /\ pipe_running' => phase' = "Running"
     /\ \A k \in Forwarders :
          (gen' > 0 /\ pc'[<<k, gen'>>] # "none") => phase' # "Starting"
     /\ ctl_pc' = "idle" =>
          \/ /\ phase' = "Running"
             /\ pipe_running' /\ cap_running' /\ stt_running' /\ llm_running'
          \/ /\ phase' = "Idle"
             /\ ~pipe_running' /\ ~cap_running' /\ ~stt_running'
             /\ ~llm_running']_vars

\* C11: start() sets the STT worker and the LLM worker running before the
\* audio capture, and spawns a forwarder only when the capture runs; stop()
\* clears is_running while every component still runs, then stops the
\* audio capture, then the STT processor, then the LLM processor.
C11_StartStopOrder ==
  [][/\ (~cap_running /\ cap_running')
          => /\ stt_running /\ llm_running
             /\ pc[<<"stt", gen>>] # "none" /\ pc[<<"llm", gen>>] # "none"
     /\ (spawned' # spawned /\ spawned' # {})
          => cap_running /\ pc[<<"cap", gen>>] # "none"
     /\ (pipe_running /\ ~pipe_running')
          => cap_running /\ stt_running /\ llm_running
     /\ (phase = "Stopping" /\ cap_running /\ ~cap_running')
          => ~pipe_running /\ stt_running /\ llm_running
     /\ (phase = "Stopping" /\ stt_running /\ ~stt_running')
          => ~pipe_running /\ ~cap_running /\ llm_running
     /\ (phase = "Stopping" /\ llm_running /\ ~llm_running')
          => ~pipe_running /\ ~cap_running /\ ~stt_running]_vars

\* every running flag is False between two calls and no start() can follow
Stopped ==
  /\ ctl_pc = "idle"
  /\ gen = env.starts
  /\ ~pipe_running /\ ~cap_running /\ ~stt_running /\ ~llm_running

\* C12: once the running flags are cleared and no start() follows, every
\* thread that is scheduled again leaves its loop and ends.
C12_LoopsTerminate ==
  Stopped ~> (\A t \in Threads : ~Alive(t))

\* C12 witness: after a stop() the six threads of the start have all ended
C12_Witness ==
  /\ Stopped
  /\ ctl_ret.call = "stop"
  /\ \A k \in Kinds : pc[<<k, 1>>] = "done"

\* C13: at any time at most one thread of each kind is alive (one capture
\* thread, one STT worker, one LLM worker, one forwarder of each kind),
\* across start()/stop() cycles.
C13_OneThreadPerKind ==
  \A k \in Kinds : Cardinality(AliveOf(k)) <= 1

\* the thread is at lines 329-345 of LLMProcessor._process_loop, inside
\* context_manager.get_translation_context(), add_sentence(text,
\* translation) or get_context_summary(), which write and read
\* history, context_summary and sentence_count; ContextManager takes no
\* lock, so nothing keeps a second thread at these lines out of the calls
InContextManager(t) ==
  /\ t[1] = "llm"
  /\ pc[t] \in {"context", "ctx_recent", "ctx_list", "ctx_format", "record",
               "count", "count_w", "due", "guard", "summary", "s_read",
               "s_store", "s_len", "s_trunc", "s_trunc_w", "snapshot"}

\* C14: the history, the summary and the sentence counter of the
\* ContextManager are read or written by one thread at a time: no two
\* threads are inside add_sentence / get_context_summary together, also
\* after stop()/start() cycles.
C14_ContextSingleThreaded ==
  Cardinality({t \in Threads : InContextManager(t)}) <= 1

\* place of chunk no in the sequence deq of dequeued chunk numbers
Index(deq, no) == CHOOSE i \in 1..Len(deq) : deq[i] = no

\* the results in result queue q stand in the order in which their inputs
\* were dequeued (deq) from the input queue of the stage
InDequeueOrder(q, deq) ==
  \A i, j \in 1..Len(q) :
    i < j => Index(deq, ChunkNo(q[i].src)) < Index(deq, ChunkNo(q[j].src))

\* C15: within the STT stage and within the LLM stage the results present
\* in the result queue stand in the order in which their inputs were
\* dequeued from the input queue of the stage.
C15_StageKeepsOrder ==
  /\ InDequeueOrder(queue["stt_result"], hist.recog)
  /\ InDequeueOrder(queue["llm_result"], hist.llm_in)

\* s is t with some elements left out, in the same relative order
RECURSIVE IsSubsequence(_, _)
IsSubsequence(s, t) ==
  IF s = <<>> THEN TRUE
  ELSE IF t = <<>> THEN FALSE
  ELSE IF Head(s) = Head(t) THEN IsSubsequence(Tail(s), Tail(t))
  ELSE IsSubsequence(s, Tail(t))

\* C16: end to end there is loss but no reordering: the originals handed
\* to on_translation are a subsequence of the transcripts the STT stage
\* produced, and the chunks that reached the recognizer are a subsequence
\* of the chunks the capture loop emitted.
C16_LossButNoReordering ==
  /\ IsSubsequence(hist.shown, hist.produced)
  /\ IsSubsequence(hist.recog, hist.emitted)

\* C17: when stop() of a running pipeline has returned, the five
\* inter-stage queues hold no items.
C17_StopLeavesQueuesEmpty ==
  (ctl_pc = "idle" /\ ctl_ret = Ret("stop", "None", FALSE))
    => \A q \in QNames : queue[q] = <<>>

\* this step is a receive of forwarder t that found an item
Took(t) ==
  /\ pc[t] = "get"
  /\ \/ pc'[t] = "put"
     \/ last_op' = Op(t, "get") /\ queue' # queue

\* what the receive of forwarder t handed to its caller in this step is
\* the item x: the chunk forwarded to put_audio, the text of the result
\* forwarded to put_text, the result handed to on_translation
Received(t, x) ==
  CASE t[1] = "a2s" -> item'[t] = x
    [] t[1] = "s2l" -> item'[t] = [tag |-> "text", text |-> x.text,
                                   src |-> x.src]
    [] t[1] = "l2d" -> hist'.shown = Append(hist.shown, ChunkNo(x.src))

\* C18: a receive (get_audio_chunk, STTProcessor.get_result,
\* LLMProcessor.get_result) on an empty queue returns None, raises nothing
\* and leaves every queue as it was: the caller holds no item and goes
\* round its loop; on a non-empty queue it returns the oldest item and
\* removes exactly that item.
C18_ReceiveOldestOrNone ==
  [][\A t \in Threads :
       (t[1] \in Forwarders /\ pc[t] = "get") =>
         LET q == InQ(t[1])
         IN /\ (queue[q] = <<>> /\ pc'[t] # pc[t])
                 => /\ queue' = queue
                    /\ item' = item
                    /\ hist' = hist
                    /\ pc'[t] = Again(t)
            /\ Took(t)
                 => /\ queue[q] # <<>>
                    /\ queue' = [queue EXCEPT ![q] = Tail(@)]
                    /\ Received(t, Head(queue[q]))]_vars

\* C18 witness: get_audio_chunk has returned the older of the two chunks
\* in the audio queue and left the newer one
C18_Witness ==
  /\ last_op = Op(<<"a2s", 1>>, "get")
  /\ Len(queue["cap_audio"]) = 1
  /\ item[<<"a2s", 1>>] # NoItem
  /\ ChunkNo(item[<<"a2s", 1>>].samples)
       < ChunkNo(queue["cap_audio"][1].samples)

\* this step is, or begins, a call of the AudioCapture method named call
CallOf(call) ==
  /\ ctl_pc = "idle"
  /\ \/ ctl_call' = call
     \/ ctl_ret'.call = call /\ ctl_ret' # ctl_ret

\* C19: AudioCapture.start() while the capture runs returns False and
\* opens no stream and spawns no thread; AudioCapture.stop() while it does
\* not run changes nothing; and when a stop() that follows a start() has
\* returned, is_running is False and the stream is released.
C19_CaptureStartStopIdempotent ==
  [][/\ (cap_running /\ CallOf("cap_start"))
          => /\ ctl_ret' = Ret("cap_start", "False", TRUE)
             /\ ctl_pc' = "idle"
             /\ UNCHANGED <<flagVars, capVars, queue, threadVars, gen>>
     /\ (~cap_running /\ CallOf("cap_stop"))
          => /\ ctl_pc' = "idle"
             /\ UNCHANGED <<flagVars, capVars, queue, threadVars, gen>>
     /\ (ctl_pc' = "idle" /\ ctl_ret'.call = "cap_stop" /\ gen' > 0)
          => ~cap_running' /\ ~stream_open']_vars

\* C20: when set_device or the opening of the stream fails,
\* AudioCapture.start() returns False, spawns no capture thread and leaves
\* is_running False.
C20_DeviceFailureFailsStart ==
  [][(ctl_pc = "c_dev" /\ ctl_pc' = "idle")
       => /\ ctl_ret' = Ret("cap_start", "False", FALSE)
          /\ ~cap_running'
          /\ pc' = pc]_vars

\* C20 witness: a start() of an idle capture has returned False without a
\* failing Thread.start(): the device could not be selected or opened
C20_Witness ==
  /\ ctl_pc = "idle"
  /\ ctl_ret = Ret("cap_start", "False", FALSE)
  /\ faults = 0
  /\ gen = 1
  /\ ~cap_running /\ ~Alive(<<"cap", 1>>)

\* the chunks that are on audio_queue or in the hands of a capture thread
\* that is about to put them
ChunksSent ==
  {queue["cap_audio"][i].samples : i \in 1..Len(queue["cap_audio"])}
    \cup {item[t].samples : t \in {u \in Threads : u[1] = "cap"
                                                   /\ item[u].tag = "chunk"}}

C22_BufferKeepsRemainder ==
  LET sliced == Len(hist.emitted)
  IN /\ frames_read * frame_len = chunk_size * sliced + Len(buffer)
     /\ \A k \in 1..sliced : hist.emitted[k] = (k - 1) * chunk_size + 1
     /\ buffer = [i \in 1..Len(buffer) |-> chunk_size * sliced + i]
     /\ \A c \in ChunksSent :
          c = [i \in 1..chunk_size |-> (ChunkNo(c) - 1) + i]

\* C22 witness: a chunk has been sliced off a buffer that held more than
\* one chunk, and the remainder is still buffered
C22_Witness ==
  /\ Len(hist.emitted) = 1
  /\ buffer # <<>>
  /\ frames_read * frame_len < 2 * chunk_size
  /\ chunk_size % frame_len # 0

\* C23: a chunk whose RMS energy is below the threshold (env.silent: its
\* samples are all zero) never reaches the recognizer in the STT worker,
\* and no transcript comes from it.
C23_SilenceGated ==
  /\ \A i \in 1..Len(hist.recog) : hist.recog[i] \notin env.silent
  /\ \A i \in 1..Len(hist.produced) : hist.produced[i] \notin env.silent

\* C24: an iteration of the STT worker in which the recognizer returns the
\* empty text (silence, not ready, or an exception inside transcribe)
\* leaves result_queue as it was and the worker, holding nothing to send,
\* goes round its loop; every result on result_queue has a non-empty text.
C24_EmptyTextNoResult ==
  [][/\ \A t \in Threads :
          (/\ t[1] = "stt" /\ pc[t] = "transcribe"
           /\ pc'[t] # "transcribe"
           /\ hist'.produced = hist.produced)
            => /\ queue'["stt_result"] = queue["stt_result"]
               /\ item'[t] = NoItem
               /\ pc'[t] = Again(t)
     /\ \A i \in 1..Len(queue'["stt_result"]) :
          queue'["stt_result"][i].text # <<>>]_vars

\* C24 witness: the recognizer has returned the empty text for the first
\* chunk and the STT worker waits for the next chunk
C24_Witness ==
  /\ Len(hist.recog) = 1
  /\ hist.produced = <<>>
  /\ pc[<<"stt", 1>>] = "get"
  /\ item[<<"stt", 1>>] = NoItem
  /\ queue["stt_result"] = <<>>

\* C25: after n accepted add_sentence calls the history holds exactly the
\* last min(n, window_size) accepted entries in the order of acceptance,
\* and never more than window_size entries.
C25_RollingWindow ==
  LET n == Len(hist.accepted)
      m == Min(n, window_size)
  IN /\ Len(history) <= window_size
     /\ history = SubSeq(hist.accepted, n - m + 1, n)

\* C25 witness: window_size + 1 entries have been accepted and the first
\* one has been evicted
C25_Witness ==
  /\ ctl_ret.call = "add_sentence"
  /\ Len(hist.accepted) = window_size + 1
  /\ history = Tail(hist.accepted)
  /\ Len(history) = window_size

\* C26: after N accepted sentences the summary has been generated anew
\* exactly N \div update_interval times, since the manager was built or
\* cleared.
C26_RegeneratedEveryInterval ==
  hist.regen = Len(hist.accepted) \div update_interval

\* C27: in every state reachable by add_sentence and clear (and imports),
\* import_context(export_context()), into this manager or into a fresh one
\* with the same window size, yields the same history, summary and sentence
\* counter as the exporting manager has.
C27_ExportImportRoundTrip ==
  LET data == ImportContext(ExportContext)
  IN /\ data.history = history
     /\ data.summary = context_summary
     /\ data.sentence_count = sentence_count

\* an import has just been made into a manager with two history entries, a
\* summary and a counter beyond the window, and left all three as they were
C27_Witness ==
  /\ ctl_ret.call = "import_context"
  /\ Len(history) = 2
  /\ context_summary # <<>>
  /\ sentence_count > Len(history)
  /\ history = SubSeq(hist.accepted, Len(hist.accepted) - 1,
                      Len(hist.accepted))

\* clear() has just returned: history, summary and counter are empty and
\* get_translation_context() would return the empty string
ClearedState ==
  ctl_ret.call = "clear" =>
    /\ history = <<>>
    /\ context_summary = <<>>
    /\ sentence_count = 0
    /\ GetTranslationContext(history, context_summary) = <<>>

\* C28: clear() leaves an empty history, an empty summary and
\* sentence_count 0, get_translation_context() then returns the empty
\* string, and the next regeneration of the summary happens when
\* update_interval further sentences have been accepted, not before.
C28_ClearStartsAfresh ==
  /\ ClearedState
  /\ hist.cleared /\ Len(hist.accepted) < update_interval
       => hist.regen = 0
  /\ hist.cleared /\ Len(hist.accepted) = update_interval
       => hist.regen = 1

\* the line of one history entry in the recent-entries fragment
RecentLine(e) == <<"<nl>", "- ">> \o e.original

\* the recent-entries fragment the claim describes: the last one or two
\* entries of the history, in order
RecentFragment ==
  LET n == Len(history)
  IN IF n = 1 THEN <<"recent:">> \o RecentLine(history[1])
     ELSE <<"recent:">> \o RecentLine(history[n - 1])
                        \o RecentLine(history[n])

\* the reference block get_translation_context() puts around a context
Reference(context) == <<"<nl>", "reference:", "<nl>">> \o context \o <<"<nl>">>

\* C29: get_translation_context() returns the empty string exactly when
\* there is neither a summary nor any history; with history and no summary
\* it holds only the recent-entries fragment; with a summary it holds the
\* summary followed by the recent entries; the fragment lists the last
\* min(2, len(history)) entries in order and no others.
C29_TranslationContextShape ==
  LET out == GetTranslationContext(history, context_summary)
  IN /\ (out = <<>>) <=> (context_summary = <<>> /\ history = <<>>)
     /\ context_summary = <<>> /\ history # <<>>
          => out = Reference(RecentFragment)
     /\ context_summary # <<>> /\ history # <<>>
          => out = Reference(<<"context: ">> \o context_summary
                               \o <<"<nl>", "<nl>">> \o RecentFragment)
     /\ context_summary # <<>> /\ history = <<>>
          => out = Reference(<<"context: ">> \o context_summary)
     /\ ctl_ret.call = "get_translation_context" => ctl_ret.value = out

\* get_translation_context() has returned the summary followed by the two
\* newest of the three entries of the window
C29_Witness ==
  /\ ctl_ret.call = "get_translation_context"
  /\ context_summary # <<>>
  /\ window_size = 3
  /\ Len(history) = 3
  /\ Len(hist.accepted) > 3
  /\ history[1] # history[2]
  /\ ctl_ret.value =
       Reference(<<"context: ">> \o context_summary
                   \o <<"<nl>", "<nl>">> \o RecentFragment)

\* an add_sentence call that accepts its sentence and in which the summary
\* generation raises or returns empty text
FailedGeneration ==
  /\ Len(hist'.accepted) = Len(hist.accepted) + 1
  /\ hist'.gen = "failed"

\* C30: when summary generation raises or returns empty text during
\* add_sentence, add_sentence returns normally, the previous
\* context_summary is kept, and the entry is appended to the history and
\* the counter incremented all the same.
C30_FailedSummaryKeepsOld ==
  [][FailedGeneration =>
       /\ ctl_ret'.call = "add_sentence"
       /\ ctl_ret'.value = <<>>
       /\ context_summary' = context_summary
       /\ sentence_count' = sentence_count + 1
       /\ history' # <<>>
       /\ history'[Len(history')] = hist'.accepted[Len(hist'.accepted)]
       /\ \A i \in 1..(Len(history') - 1) :
            history'[i] = history[i + Len(history) + 1 - Len(history')]]_vars

\* a generation has failed in an add_sentence that found a summary in
\* place: the summary is still there and the sentence is in the history
C30_Witness ==
  /\ ctl_ret.call = "add_sentence"
  /\ hist.gen = "failed"
  /\ hist.regen >= 2
  /\ context_summary # <<>>
  /\ history[Len(history)] = hist.accepted[Len(hist.accepted)]
  /\ sentence_count = Len(hist.accepted)

\* C31: the stored summary never has more than max_context_length
\* characters, for the ContextManager and for the SimpleContextManager.
C31_SummaryWithinMax ==
  Len(context_summary) <= max_context_length

\* the part of C31 about the generation-backed ContextManager
SummaryWithinMaxGenerated ==
  ~ctx_simple => Len(context_summary) <= max_context_length

LlmThreads == {t \in Threads : t[1] = "llm"}

\* s ends with the sequence e
EndsWith(s, e) ==
  /\ Len(s) >= Len(e)
  /\ SubSeq(s, Len(s) - Len(e) + 1, Len(s)) = e

\* the history entry add_sentence makes of a result
EntryOf(r) ==
  [original |-> Strip(r.original), translation |-> Strip(r.translation)]

\* a result dict of the LLM worker: its translation is not empty,
\* add_sentence has accepted its sentence, and its context snapshot ends
\* with the line of its own original, the newest entry of the window when
\* the snapshot was taken
RecordedResult(r) ==
  /\ r.translation # <<>>
  /\ Contains(hist.accepted, EntryOf(r))
  /\ EndsWith(r.context, RecentLine(EntryOf(r)))

\* C32: in the translation worker the context is fetched before the
\* generator is invoked (it does not hold the sentence being translated),
\* add_sentence is called only with a non-empty translation and before the
\* result is put on result_queue, and every result carries the context
\* snapshot taken after its add_sentence, holding its own original.
C32_RecordThenEmit ==
  /\ \A t \in LlmThreads :
       /\ pc[t] = "record" =>
            /\ item[t].translation # <<>>
            /\ item[t].context =
                 GetTranslationContext(history, context_summary)
       /\ item[t].tag = "res" =>
            /\ RecordedResult(item[t])
            /\ history # <<>>
            /\ history[Len(history)] = EntryOf(item[t])
            /\ item[t].context = GetContextSummary(history, context_summary)
  /\ \A i \in 1..Len(hist.accepted) : hist.accepted[i].translation # <<>>
  /\ \A i \in 1..Len(queue["llm_result"]) :
       RecordedResult(queue["llm_result"][i])

\* the worker has put the result of its second sentence on result_queue:
\* its snapshot lists the first sentence and then its own
C32_Witness ==
  /\ Len(hist.accepted) = 2
  /\ Len(queue["llm_result"]) = 1
  /\ last_op.by[1] = "llm"
  /\ LET r == queue["llm_result"][1]
     IN /\ r.context = GetRecentContext(hist.accepted)
        /\ EntryOf(r) = hist.accepted[2]

\* the step of LLM worker t in which llm.translate has returned no text
\* for the text the worker holds (empty output, model not ready, or an
\* exception caught in translate)
NoTranslation(t) ==
  /\ pc[t] = "translate"
  /\ pc'[t] # "translate"
  /\ pc'[t] # "record"

\* C33: when the generator returns empty text, is not ready or fails for a
\* dequeued text, the worker emits no result, leaves history, summary and
\* counter of the ContextManager as they are and goes on with its loop;
\* every result on LLMProcessor.result_queue has a non-empty translation.
C33_NoTranslationNoResult ==
  [][/\ \A t \in LlmThreads :
          NoTranslation(t) =>
            /\ UNCHANGED <<history, context_summary, sentence_count>>
            /\ UNCHANGED queue
            /\ hist'.accepted = hist.accepted
            /\ item'[t] = NoItem
            /\ pc'[t] = IF llm_running THEN "get" ELSE "done"
     /\ \A i \in 1..Len(queue'["llm_result"]) :
          queue'["llm_result"][i].translation # <<>>]_vars

\* of two texts the worker has dequeued one was translated and recorded and
\* the other dropped, and the worker is waiting for the next text
C33_Witness ==
  /\ Len(hist.llm_in) = 2
  /\ Len(hist.accepted) = 1
  /\ sentence_count = 1
  /\ llm_running
  /\ pc[<<"llm", 1>>] = "get"
  /\ item[<<"llm", 1>>] = NoItem
  /\ Len(hist.shown) + Len(queue["llm_result"]) <= 1

\* the non-empty words of a word list, in list order
RECURSIVE NonEmptyWords(_)
NonEmptyWords(words) ==
  IF words = <<>> THEN <<>>
  ELSE IF Head(words) = <<>> THEN NonEmptyWords(Tail(words))
       ELSE <<Head(words)>> \o NonEmptyWords(Tail(words))

S2lThreads == {t \in Threads : t[1] = "s2l"}

\* C34: for every transcript with text that the forwarder dequeues while
\* on_partial_text is set, the callback is invoked exactly once for each
\* non-empty word of its word list, in list order, repeated words
\* included, and before the text is submitted to the translation stage.
C34_PartialPerWord ==
  /\ \A i \in 1..Len(hist.partial) :
       hist.partial[i].calls = NonEmptyWords(hist.partial[i].words)
  /\ \A t \in S2lThreads :
       pc[t] = "put" =>
         /\ hist.partial # <<>>
         /\ hist.partial[Len(hist.partial)].src = ChunkNo(item[t].src)

\* the part of C34 that holds: the calls of a transcript come before its
\* text is submitted, in list order, each a non-empty word of the list
PartialBeforeSubmit ==
  /\ \A i \in 1..Len(hist.partial) :
       IsSubsequence(hist.partial[i].calls,
                     NonEmptyWords(hist.partial[i].words))
  /\ \A t \in S2lThreads :
       pc[t] = "put" =>
         /\ hist.partial # <<>>
         /\ hist.partial[Len(hist.partial)].src = ChunkNo(item[t].src)

\* the display forwarder takes the oldest result off
\* LLMProcessor.result_queue (the LLM worker, which also takes results off
\* that queue when it is full, stays where it is)
DisplayDequeue ==
  /\ queue["llm_result"] # <<>>
  /\ queue'["llm_result"] = Tail(queue["llm_result"])
  /\ \A t \in LlmThreads : pc'[t] = pc[t]

\* the arguments on_translation is called with for result r
CallOfResult(r) ==
  [original |-> r.original, translation |-> r.translation,
   context |-> r.context, src |-> ChunkNo(r.src), raised |-> FALSE]

L2dThreads == {t \in Threads : t[1] = "l2d"}

\* the step in which display forwarder t calls on_translation for the
\* result r it has dequeued
Delivers(t, r) ==
  /\ hist'.delivered = Append(hist.delivered, CallOfResult(r))
  /\ item'[t] = NoItem

\* C35: for every result the display forwarder dequeues while the callback
\* is set, on_translation is invoked exactly once, with the original, the
\* translation and the context of that result: in the step of the get, or
\* when the forwarder lets go of the result it holds; and no translation
\* is delivered to the callback more than once.
C35_OneCallPerTranslation ==
  [][/\ \A t \in L2dThreads :
          /\ (pc[t] = "get" /\ DisplayDequeue /\ env.on_translation) =>
               LET r == queue["llm_result"][1]
               IN \/ Delivers(t, r)
                  \/ /\ pc'[t] = "cb_test"
                     /\ item'[t] = r
                     /\ hist'.delivered = hist.delivered
          /\ (/\ pc[t] \in {"cb_test", "call"}
              /\ pc'[t] \notin {"cb_test", "call"}
              /\ ChunkNo(item[t].src) \in hist.offered) =>
               Delivers(t, item[t])
     /\ \A i, j \in 1..Len(hist'.delivered) :
          i # j => hist'.delivered[i].src # hist'.delivered[j].src]_vars

\* the step in which the processing of one item fails in the loop of
\* thread t: the recognizer gives no text for a chunk (it raised or is not
\* ready), the generator gives no translation, or a callback raises
FailedItem(t) ==
  \/ /\ t[1] = "stt"
     /\ pc[t] = "transcribe"
     /\ pc'[t] # "transcribe"
     /\ hist'.produced = hist.produced
  \/ /\ t[1] = "llm"
     /\ NoTranslation(t)
  \/ /\ t[1] = "s2l"
     /\ pc[t] = "get"
     /\ Len(hist'.partial) = Len(hist.partial) + 1
     /\ hist'.partial[Len(hist'.partial)].raised
  \/ /\ t[1] = "l2d"
     /\ pc[t] = "get"
     /\ Len(hist'.delivered) = Len(hist.delivered) + 1
     /\ hist'.delivered[Len(hist'.delivered)].raised

\* C36: when the recognizer, the generator or a callback fails on one
\* item, the loop that owns the item stays alive and, a forwarder after
\* the sleep of its except clause, begins its next iteration (unless its
\* running flag has been cleared by stop()), the running flags and the
\* state of the orchestrator are left as they are, and the loop processes
\* later items.
C36_ItemFailureStaysLocal ==
  [][\A t \in Threads :
       /\ FailedItem(t) =>
            /\ UNCHANGED flagVars
            /\ UNCHANGED ctlVars
            /\ pc'[t] = IF t[1] \in Forwarders THEN "sleep"
                        ELSE IF RunFlag(t[1]) THEN "get" ELSE "done"
            /\ \A u \in Threads \ {t} : pc'[u] = pc[u]
       /\ (pc[t] = "sleep" /\ pc'[t] # "sleep") =>
            /\ UNCHANGED flagVars
            /\ pc'[t] = IF RunFlag(t[1]) THEN "get" ELSE "done"]_vars

\* the display callback raised on the first translation and was called
\* again, without raising, on the second, in a pipeline still running
C36_Witness ==
  /\ Len(hist.delivered) = 2
  /\ hist.delivered[1].raised
  /\ ~hist.delivered[2].raised
  /\ pipe_running /\ cap_running /\ stt_running /\ llm_running
  /\ pc[<<"l2d", 1>>] = "get"
  /\ pc[<<"s2l", 1>>] = "get"

CapThreads == {t \in Threads : t[1] = "cap"}

\* an iteration of the capture loop of thread t raises in its read or in
\* the processing of the frame
ReadFailed(t) ==
  /\ pc[t] = "read"
  /\ Len(hist'.read_failed) = Len(hist.read_failed) + 1

\* C37: when the read or the processing of a frame raises in the capture
\* loop, is_running is left as it is, the buffer and audio_queue are not
\* changed by that iteration, and after the sleep of the except clause
\* the loop begins its next iteration (unless stop() has cleared
\* is_running meanwhile).
C37_ReadFailureRetries ==
  [][\A t \in CapThreads :
       /\ ReadFailed(t) =>
            /\ cap_running' = cap_running
            /\ buffer' = buffer
            /\ queue' = queue
            /\ stream_open' = stream_open
            /\ pc'[t] = "sleep"
       /\ (pc[t] = "sleep" /\ pc'[t] # "sleep") =>
            /\ cap_running' = cap_running
            /\ buffer' = buffer
            /\ queue' = queue
            /\ pc'[t] = IF cap_running THEN "read" ELSE "done"]_vars

\* an iteration raised after the first frame, and the loop has gone on to
\* read the frames that complete a chunk and has sent it
C37_Witness ==
  /\ hist.read_failed # <<>>
  /\ hist.read_failed[1] = 1
  /\ frame_len < chunk_size
  /\ hist.emitted # <<>>
  /\ queue["cap_audio"] # <<>>
  /\ cap_running

\* C38: in every state reached by add_sentence and clear,
\* len(history) = min(sentence_count, window_size), sentence_count is the
\* number of add_sentence calls with a non-blank original since the last
\* clear, and an add_sentence with a blank original changes neither
\* history, summary nor counter.
C38_CounterAndWindow ==
  [][/\ Len(history') = Min(sentence_count', window_size)
     /\ sentence_count' = Len(hist'.accepted)
     /\ ctl_ret'.call = "add_sentence" /\ ctl_ret'.guard =>
          UNCHANGED <<history, context_summary, sentence_count>>]_vars

\* add_sentence has returned on a blank original in a manager that has
\* accepted more sentences than its window holds
C38_Witness ==
  /\ ctl_ret.call = "add_sentence"
  /\ ctl_ret.guard
  /\ sentence_count > window_size
  /\ Len(history) = window_size
  /\ hist.cleared

\* the first half of C39: a running pipeline has its three components
\* running
RunningImpliesComponents ==
  pipe_running => cap_running /\ stt_running /\ llm_running

\* C39: whenever pipeline.is_running is True the audio capture, the STT
\* processor and the LLM processor have is_running True, and whenever
\* stop() has returned all four running flags are False.
C39_FlagsAgree ==
  /\ RunningImpliesComponents
  /\ ctl_pc = "idle" /\ ctl_ret.call = "stop" =>
       ~pipe_running /\ ~cap_running /\ ~stt_running /\ ~llm_running

\* C40: at the end of every iteration of the capture loop the buffer holds
\* fewer than chunk_size samples, for every chunk_size and every length of
\* a processed frame.
C40_BufferBelowChunk ==
  Len(buffer) < chunk_size

\* the bound the loop does keep: one chunk is sliced per read, so the
\* buffer stays below chunk_size where a frame is no longer than a chunk
BufferBelowChunkForShortFrames ==
  frame_len <= chunk_size => Len(buffer) < chunk_size

====
